---- MODULE Spec2Model ----
(***************************************************************************)
(* Satellite overlay core of RescueDecisionSystems:                        *)
(*   sat_fetch_tle.py        reference catalog, resolver, element provider *)
(*   sat_compute_groundtrack.py  sub-point, next-pass search               *)
(*   sat_compute_footprint.py    horizon radius                            *)
(*   sat_pipeline.py         build_sat_overlay_df (the orchestrator)       *)
(*                                                                         *)
(* Text values are sequences of one-character strings so that lower(),     *)
(* upper(), strip(), startswith() and contains() are computed, not assumed.*)
(* A missing value (None / NaN / pd.NA / NaT) of a numeric cell is NA; an  *)
(* optional value is a sequence of length 0 (None) or 1.                   *)
(***************************************************************************)
EXTENDS Integers, Sequences, FiniteSets, TLC

VARIABLES
    refFile,        \* the baseline reference CSV on disk (sat_fetch_tle.py:37,88)
    tleCacheCatnr,  \* _TLE_CACHE_CATNR, module global (sat_fetch_tle.py:138)
    tleCacheGroup,  \* _TLE_CACHE_GROUP, module global (sat_fetch_tle.py:139)
    net,            \* the fates the network holds for the next requests, in order
    sky,            \* what propagation gives for each satellite at the alert time
    alertRow,       \* alert_df.iloc[0], the alert being processed
    elevations,     \* elevation series the propagator yields for the pass search
    threads,        \* each thread inside load_tle_snapshot: position and locals
    call            \* the last completed call: operation, arguments, result

vars == <<refFile, tleCacheCatnr, tleCacheGroup, net, sky, alertRow, elevations,
          threads, call>>

-----------------------------------------------------------------------------
(* Bounds of the model *)

MaxCat == 2         \* rows in the reference catalog
MaxElev == 4        \* samples in an elevation series
MaxKeys == 2        \* keys in one load_tle_snapshot request list

-----------------------------------------------------------------------------
(* Values *)

NA == 0 - 999999
None == <<>>
Some(x) == <<x>>
Absent == <<"<absent>">>    \* the column is not in alert_df.columns

UpperChars == <<"A","B","C","D","E","F","G","H","I","J","K","L","M",
                "N","O","P","Q","R","S","T","U","V","W","X","Y","Z">>
LowerChars == <<"a","b","c","d","e","f","g","h","i","j","k","l","m",
                "n","o","p","q","r","s","t","u","v","w","x","y","z">>

lower_char(c) ==
    IF \E i \in DOMAIN UpperChars : UpperChars[i] = c
    THEN LowerChars[CHOOSE i \in DOMAIN UpperChars : UpperChars[i] = c]
    ELSE c

upper_char(c) ==
    IF \E i \in DOMAIN LowerChars : LowerChars[i] = c
    THEN UpperChars[CHOOSE i \in DOMAIN LowerChars : LowerChars[i] = c]
    ELSE c

str_lower(s) == [i \in 1..Len(s) |-> lower_char(s[i])]
str_upper(s) == [i \in 1..Len(s) |-> upper_char(s[i])]

RECURSIVE lstrip(_)
lstrip(s) == IF s # <<>> /\ Head(s) = " " THEN lstrip(Tail(s)) ELSE s

RECURSIVE rstrip(_)
rstrip(s) ==
    IF s # <<>> /\ s[Len(s)] = " " THEN rstrip(SubSeq(s, 1, Len(s) - 1)) ELSE s

str_strip(s) == rstrip(lstrip(s))

\* Series.str.contains(val) for a pattern of plain characters
str_contains(s, sub) ==
    \E i \in 0..(Len(s) - Len(sub)) : SubSeq(s, i + 1, i + Len(sub)) = sub

str_startswith(s, p) == Len(s) >= Len(p) /\ SubSeq(s, 1, Len(p)) = p

RECURSIVE SeqsUpTo(_, _)
SeqsUpTo(S, n) ==
    IF n = 0 THEN {<<>>}
    ELSE LET shorter == SeqsUpTo(S, n - 1)
         IN shorter \cup {Append(q, x) : q \in {r \in shorter : Len(r) = n - 1}, x \in S}

-----------------------------------------------------------------------------
(* Reference catalog: sat_fetch_tle.load_sat_reference *)

RequiredCols == {"type", "designator", "common_name", "norad_id", "intl_designator"}

NameSet == { <<"N","1">>, <<"X","N","1">>, <<"N","2">> }
DesigSet == { <<"S","7">>, <<"E","1">> }
NoradSet == {1, 2}
\* every satellite the provider knows: catalog numbers and group members
SatNums == 1..6

CatRecs ==
    [type : {"LEO"}, designator : DesigSet, common_name : NameSet,
     norad_id : NoradSet, intl_designator : {<<"i">>}]

Raise(e) == [kind |-> "raise", exc |-> e, val |-> None]
Return(v) == [kind |-> "ok", exc |-> "", val |-> v]

\* read_csv of a missing file raises; a missing required column raises ValueError
load_sat_reference ==
    IF ~refFile.exists THEN Raise("FileNotFoundError")
    ELSE IF ~(RequiredCols \subseteq refFile.columns) THEN Raise("ValueError")
    ELSE Return(refFile.rows)

-----------------------------------------------------------------------------
(* Resolver: sat_fetch_tle.resolve_reporting_sat *)

\* first column of cols that alert_df has, as an optional
RECURSIVE first_present(_, _)
first_present(alert, cols) ==
    IF cols = <<>> THEN None
    ELSE IF alert[Head(cols)] # Absent THEN Some(Head(cols))
    ELSE first_present(alert, Tail(cols))

name_exact(df, val) == SelectSeq(df, LAMBDA r : str_lower(r.common_name) = val)
name_contains(df, val) ==
    SelectSeq(df, LAMBDA r : str_contains(str_lower(r.common_name), val))
desig_exact(df, val) == SelectSeq(df, LAMBDA r : str_upper(r.designator) = val)

RECURSIVE by_designator(_, _, _)
by_designator(df, alert, cols) ==
    IF cols = <<>> THEN None
    ELSE IF alert[Head(cols)] = Absent THEN by_designator(df, alert, Tail(cols))
    ELSE LET val == str_upper(str_strip(alert[Head(cols)]))
             matches == desig_exact(df, val)
         IN IF matches # <<>> THEN Some(matches[1])
            ELSE by_designator(df, alert, Tail(cols))

\* mutant: the substring match is tried without the exact match before it
by_name_contains_first(df, alert) ==
    LET name_col == first_present(alert, <<"sat_name", "satellite_name">>)
    IN IF name_col = None THEN None
       ELSE LET val == str_lower(str_strip(alert[name_col[1]]))
                matches == name_contains(df, val)
            IN IF matches # <<>> THEN Some(matches[1]) ELSE None

by_name(df, alert) ==
    LET name_col == first_present(alert, <<"sat_name", "satellite_name">>)
    IN IF name_col = None THEN None
       ELSE LET val == str_lower(str_strip(alert[name_col[1]]))
                exact == name_exact(df, val)
                matches == IF exact = <<>> THEN name_contains(df, val) ELSE exact
            IN IF matches # <<>> THEN Some(matches[1]) ELSE None

resolve_reporting_sat(alert) ==
    LET ref == load_sat_reference
    IN IF ref.kind = "raise" THEN ref
       ELSE LET named == by_name(ref.val, alert)
            IN IF named # None THEN Return(named)
               ELSE Return(by_designator(ref.val, alert,
                                         <<"sat_designator", "sat", "SAT">>))

-----------------------------------------------------------------------------
(* Element provider: sat_fetch_tle.load_tle_snapshot                       *)
(* Times are whole seconds since 2025-01-01T00:00Z.                        *)

Digits == <<"0","1","2","3","4","5","6","7","8","9">>

is_digit(c) == \E d \in DOMAIN Digits : Digits[d] = c
digit_val(c) == (CHOOSE d \in DOMAIN Digits : Digits[d] = c) - 1

\* int(s) succeeds (plain decimal digits)
is_int(s) == s # <<>> /\ \A i \in DOMAIN s : is_digit(s[i])

RECURSIVE to_int(_)
to_int(s) ==
    IF s = <<>> THEN 0
    ELSE 10 * to_int(SubSeq(s, 1, Len(s) - 1)) + digit_val(s[Len(s)])

\* str(int(n)), n >= 0
RECURSIVE int_to_str(_)
int_to_str(n) ==
    IF n < 10 THEN <<Digits[n + 1]>>
    ELSE Append(int_to_str(n \div 10), Digits[(n % 10) + 1])

GroupNames == {"galileo", "glonass", "beidou"}

\* group inferred from the first letter of a non-numeric key
infer_group(s) ==
    LET s_up == str_upper(s)
    IN IF str_startswith(s_up, <<"E">>) THEN Some("galileo")
       ELSE IF str_startswith(s_up, <<"R">>) THEN Some("glonass")
       ELSE IF str_startswith(s_up, <<"B">>) \/ str_startswith(s_up, <<"C">>)
            THEN Some("beidou")
       ELSE None

RECURSIVE parse_ids(_)
parse_ids(keys) ==
    IF keys = <<>> THEN <<>>
    ELSE IF is_int(Head(keys)) THEN <<to_int(Head(keys))>> \o parse_ids(Tail(keys))
    ELSE parse_ids(Tail(keys))

parse_groups(keys) ==
    {g \in GroupNames :
        \E i \in DOMAIN keys : ~is_int(keys[i]) /\ infer_group(keys[i]) = Some(g)}

(* Lines of a response body.  A line 1 carries the catalog-number field    *)
(* [2:7] and the epoch field [18:32] (two-digit year, day of year; the day *)
(* of year is kept in hours, 24 = 1.0).                                    *)
NoEpochField == [yy |-> NA, doy24 |-> NA]
NameLine(nm) == [kind |-> "name", name |-> nm, sat |-> NA, ep |-> NoEpochField]
Line1(n, ep) == [kind |-> "l1", name |-> <<>>, sat |-> n, ep |-> ep]
Line2(n) == [kind |-> "l2", name |-> <<>>, sat |-> n, ep |-> NoEpochField]
JunkLine == [kind |-> "junk", name |-> <<>>, sat |-> NA, ep |-> NoEpochField]

EpochA == [yy |-> 25, doy24 |-> 24]     \* 25001.00000000
EpochB == [yy |-> 25, doy24 |-> 36]     \* 25001.50000000

HoursPerYear == 8760
SecondsPerHour == 3600
\* datetime(year, 1, 1, tzinfo=utc), for the common years around 2025
year_start(year) == (year - 2025) * HoursPerYear * SecondsPerHour

\* epoch_str = line1[18:32]; 2000 + yy if yy < 57 else 1900 + yy
parse_epoch(l1) ==
    IF l1.kind # "l1" \/ l1.ep.yy = NA THEN NA
    ELSE LET yy == l1.ep.yy
             year == IF yy < 57 THEN 2000 + yy ELSE 1900 + yy
         IN year_start(year) + (l1.ep.doy24 - 24) * SecondsPerHour

\* int(tle1[2:7]) or None
parse_catnr(l1) == IF l1.kind = "l1" THEN l1.sat ELSE NA

SatName(n) == <<"N", Digits[n + 1]>>

GroupMembers(g) ==
    IF g = "galileo" THEN <<3, 4>> ELSE IF g = "glonass" THEN <<5>> ELSE <<6>>

Triple(n, ep) == <<NameLine(SatName(n)), Line1(n, ep), Line2(n)>>

RECURSIVE Triples(_, _)
Triples(sats, ep) ==
    IF sats = <<>> THEN <<>> ELSE Triple(Head(sats), ep) \o Triples(Tail(sats), ep)

CatnrReq(n) == [by |-> "CATNR", id |-> n, group |-> ""]
GroupReq(g) == [by |-> "GROUP", id |-> NA, group |-> g]

(* What the network does with one request, by the fate the request meets. *)
Response(req, fate) ==
    LET sats == IF req.by = "CATNR" THEN <<req.id>> ELSE GroupMembers(req.group)
    IN IF fate = "exception" THEN [exc |-> TRUE, status_code |-> 0, lines |-> <<>>]
       ELSE IF fate = "non200" THEN [exc |-> FALSE, status_code |-> 503, lines |-> <<>>]
       ELSE IF fate = "blank" THEN [exc |-> FALSE, status_code |-> 200, lines |-> <<>>]
       ELSE IF fate = "short" THEN [exc |-> FALSE, status_code |-> 200, lines |-> <<JunkLine>>]
       ELSE IF fate = "garbled"
            THEN [exc |-> FALSE, status_code |-> 200,
                  lines |-> <<JunkLine, JunkLine, JunkLine>>]
       ELSE [exc |-> FALSE, status_code |-> 200,
             lines |-> Triples(sats, IF fate = "ok_a" THEN EpochA ELSE EpochB)]

\* mutant: a failed request is repeated, up to 3 requests in all
RECURSIVE requests_get_retry(_, _)
requests_get_retry(req, fates) ==
    LET fate == IF fates = <<>> THEN "exception" ELSE Head(fates)
        rest == IF fates = <<>> THEN <<>> ELSE Tail(fates)
        r == Response(req, fate)
    IN IF (r.exc \/ r.status_code # 200) /\ Len(fates) > 1
       THEN LET again == requests_get_retry(req, rest)
            IN [resp |-> again.resp, rest |-> again.rest, sent |-> <<req>> \o again.sent]
       ELSE [resp |-> r, rest |-> rest, sent |-> <<req>>]

\* requests.get(url, timeout=10): one request, answered by the next pending
\* fate of the network; with none pending the connection fails
requests_get(req, fates) ==
    [resp |-> Response(req, IF fates = <<>> THEN "exception" ELSE Head(fates)),
     rest |-> IF fates = <<>> THEN <<>> ELSE Tail(fates),
     sent |-> <<req>>]

make_tle(name, norad_id, l1, l2, method) ==
    [name |-> name, norad_id |-> norad_id, tle_line1 |-> l1, tle_line2 |-> l2,
     epoch_utc |-> parse_epoch(l1), provider |-> "celestrak",
     lookup_method |-> method, cache_hit |-> FALSE]

\* mutant: the cache is never consulted
catnr_cached_never(cache, n) == FALSE

\* norad_id in _TLE_CACHE_CATNR
catnr_cached(cache, n) == cache[n] # None

(* E1: the loop over ids.  st.rows holds, for every row appended, the id   *)
(* whose dict it is: the dict appended is the very object the cache holds, *)
(* so a later tle["cache_hit"] = True shows in every row of that id.       *)
RECURSIVE fetch_ids(_, _)
fetch_ids(ids, st) ==
    IF ids = <<>> THEN st
    ELSE LET n == Head(ids)
         IN IF catnr_cached(st.catnr, n)
            THEN fetch_ids(Tail(ids),
                    [st EXCEPT !.catnr[n] = Some([st.catnr[n][1] EXCEPT !.cache_hit = TRUE]),
                               !.rows = Append(st.rows, n)])
            ELSE LET got == requests_get(CatnrReq(n), st.net)
                     r == got.resp
                     st1 == [st EXCEPT !.net = got.rest, !.sent = st.sent \o got.sent]
                 IN IF ~r.exc /\ r.status_code = 200 /\ Len(r.lines) >= 3
                    THEN fetch_ids(Tail(ids),
                            [st1 EXCEPT
                                !.catnr[n] = Some(make_tle(r.lines[1].name, n, r.lines[2],
                                                           r.lines[3], "catnr")),
                                !.rows = Append(st.rows, n)])
                    ELSE fetch_ids(Tail(ids), st1)

\* for i in range(0, len(lines) - 2, 3)
RECURSIVE parse_group_lines(_)
parse_group_lines(lines) ==
    IF Len(lines) < 3 THEN <<>>
    ELSE <<make_tle(lines[1].name, parse_catnr(lines[2]), lines[2], lines[3], "group")>>
         \o parse_group_lines(SubSeq(lines, 4, Len(lines)))

mark_hit(tles) == [i \in DOMAIN tles |-> [tles[i] EXCEPT !.cache_hit = TRUE]]

\* E2: the loop over groups, in the iteration order of the set
RECURSIVE fetch_groups(_, _)
fetch_groups(groups, st) ==
    IF groups = <<>> THEN st
    ELSE LET g == Head(groups)
         IN IF st.group[g] # None
            THEN fetch_groups(Tail(groups),
                    [st EXCEPT !.grows = st.grows \o mark_hit(st.group[g][1])])
            ELSE LET got == requests_get(GroupReq(g), st.net)
                     r == got.resp
                     st1 == [st EXCEPT !.net = got.rest, !.sent = st.sent \o got.sent]
                 IN IF ~r.exc /\ r.status_code = 200
                    THEN LET tles == parse_group_lines(r.lines)
                         IN fetch_groups(Tail(groups),
                               [st1 EXCEPT !.group[g] = Some(tles),
                                           !.grows = st.grows \o tles])
                    ELSE fetch_groups(Tail(groups), st1)

(* Two threads inside load_tle_snapshot, each looking one key up.  There   *)
(* is no lock in the module: a thread may be preempted between the cache   *)
(* test, the request and the store (lines 166-199, 204-248).               *)
Threads == {1, 2}

NoResponse == [exc |-> TRUE, status_code |-> 0, lines |-> <<>>]
Outside == [pc |-> "outside", key |-> CatnrReq(NA), resp |-> NoResponse,
            rows |-> <<>>, sent |-> <<>>]
NoThreads == [t \in Threads |-> Outside]

\* lines 166, 204: key in the cache
key_cached(key, catnr, group) ==
    IF key.by = "CATNR" THEN catnr_cached(catnr, key.id) ELSE group[key.group] # None

\* lines 175-177, 214: the response is usable
usable(key, r) ==
    /\ ~r.exc /\ r.status_code = 200
    /\ key.by = "CATNR" => Len(r.lines) >= 3

(* load_tle_snapshot(keys): the frame returned, the caches and the pending *)
(* network fates after the call, and the requests sent.                    *)
load_tle_snapshot(keys, gorder, catnr, group, pending) ==
    LET st0 == [catnr |-> catnr, group |-> group, net |-> pending,
                rows |-> <<>>, grows |-> <<>>, sent |-> <<>>]
        st1 == fetch_ids(parse_ids(keys), st0)
        st2 == fetch_groups(gorder, st1)
    IN [df |-> [i \in DOMAIN st2.rows |-> st2.catnr[st2.rows[i]][1]] \o st2.grows,
        catnr |-> st2.catnr, group |-> st2.group, net |-> st2.net, sent |-> st2.sent]

\* the orders in which a Python set of groups may be iterated
SetOrders(S) ==
    {q \in SeqsUpTo(S, Cardinality(S)) :
        Len(q) = Cardinality(S) /\ \A g \in S : \E i \in DOMAIN q : q[i] = g}

EmptyCatnrCache == [n \in SatNums |-> None]
EmptyGroupCache == [g \in GroupNames |-> None]

-----------------------------------------------------------------------------
(* Pass predictor: sat_compute_groundtrack.find_next_pass_marker           *)
(* The series el holds the sampled elevations, sample k (0-based) taken at *)
(* start_utc + k * step_s.                                                 *)

step_s == 60

\* np.where(elevations > 0)[0]: the 0-based indices, ascending
above_idx(el) ==
    SelectSeq([i \in 1..Len(el) |-> i - 1], LAMBDA k : el[k + 1] > 0)

\* mutant: the block is not cut at the first gap
extend_block_nogap(last, rest) == IF rest = <<>> THEN last ELSE rest[Len(rest)]

\* for idx in above[1:]: if idx == last + 1: last = idx else: break
RECURSIVE extend_block(_, _)
extend_block(last, rest) ==
    IF rest = <<>> THEN last
    ELSE IF Head(rest) = last + 1 THEN extend_block(Head(rest), Tail(rest))
    ELSE last

\* np.argmax: offset of the first occurrence of the largest value
RECURSIVE argmax_from(_, _, _)
argmax_from(xs, i, best) ==
    IF i > Len(xs) THEN best - 1
    ELSE argmax_from(xs, i + 1, IF xs[i] > xs[best] THEN i ELSE best)

\* mutant: the peak is taken at the first sample of the block
np_argmax_first(xs) == 0

np_argmax(xs) == argmax_from(xs, 1, 1)

find_next_pass_marker(el, start_utc) ==
    LET above == above_idx(el)
    IN IF Len(above) = 0 THEN None
       ELSE LET first == above[1]
                last == extend_block(first, Tail(above))
                max_idx == first + np_argmax(SubSeq(el, first + 1, last + 1))
            IN Some([time_utc |-> start_utc + max_idx * step_s,
                     elevation_max_deg |-> el[max_idx + 1]])

ElevVals == {0 - 1, 0, 1, 2}

-----------------------------------------------------------------------------
(* Longitude handling and track sampling:                                  *)
(* sat_compute_groundtrack.compute_subpoint_at, compute_short_track.       *)
(* Angles are whole degrees; NaN propagates through the arithmetic.        *)

\* mutant: the raw longitude is passed through
wrap180_raw(deg) == deg

\* ((deg + 180) % 360) - 180
wrap180(deg) == IF deg = NA THEN NA ELSE ((deg + 180) % 360) - 180

\* np.unwrap, per step: ddmod = mod(dd + pi, 2 pi) - pi, with -pi turned to
\* +pi when dd > 0
ddmod(dd) ==
    LET m == ((dd + 180) % 360) - 180
    IN IF m = 0 - 180 /\ dd > 0 THEN 180 ELSE m

\* ph_correct = ddmod - dd, zeroed where |dd| < pi
ph_correct(dd) == IF dd < 180 /\ dd > 0 - 180 THEN 0 ELSE ddmod(dd) - dd

\* up[i] = p[i] + cumsum(ph_correct)[i]
RECURSIVE unwrap_from(_, _, _, _)
unwrap_from(p, i, corr, acc) ==
    IF i > Len(p) THEN acc
    ELSE LET c == corr + ph_correct(p[i] - p[i - 1])
         IN unwrap_from(p, i + 1, c, Append(acc, p[i] + c))

\* mutant: the series is left as propagated
np_unwrap_none(p) == p

np_unwrap(p) == IF Len(p) = 0 THEN <<>> ELSE unwrap_from(p, 2, 0, <<p[1]>>)

\* mutant: the sample at center + forward_min is left out
n_steps_open(forward_min, step) == (forward_min * 60) \div step

\* n_steps = int(forward_min * 60 // step_s) + 1
n_steps(forward_min, step) == ((forward_min * 60) \div step) + 1

\* times = [center_utc + timedelta(seconds=k * step_s) for k in range(n_steps)]
sample_times(center_utc, forward_min, step) ==
    [i \in 1..n_steps(forward_min, step) |-> center_utc + (i - 1) * step]

\* lines 71-85 on the propagated series lons, lats (one entry per sample):
\* the unwrapped series lons_deg is kept beside the returned triple
short_track(lons, lats, center_utc, forward_min, step) ==
    LET times == sample_times(center_utc, forward_min, step)
        lons_deg == np_unwrap(lons)
    IN [coords |-> [i \in 1..Len(lons) |-> <<wrap180(lons_deg[i]), lats[i]>>],
        start_utc |-> center_utc,
        end_utc |-> times[Len(times)],
        times |-> times,
        lons_deg |-> lons_deg]

\* lines 134-143: the marker carries the sub-point at t_max, longitude wrapped
marker_subpoint(marker, lat, lon) ==
    IF marker = None THEN None
    ELSE Some(marker[1] @@ [lat_dd |-> lat, lon_dd |-> wrap180(lon)])

-----------------------------------------------------------------------------
(* Propagation and footprint                                               *)
(* sky[n] is what SGP4 gives for satellite n at the alert time: its        *)
(* sub-point and altitude, and the great-circle distance of the sub-point  *)
(* from the alert point; a failed propagation gives NaN throughout.        *)

NanPoint == [lat_dd |-> NA, lon_dd |-> NA, alt_km |-> NA, dist_km |-> NA]

\* EarthSatellite(tle_line1, tle_line2, ...) accepts the two lines
well_formed(l1, l2) == l1.kind = "l1" /\ l2.kind = "l2"

\* _make_sat raises ValueError("Malformed TLE") on lines it cannot parse
compute_subpoint_at(sk, l1, l2) ==
    IF ~well_formed(l1, l2) THEN Raise("ValueError")
    ELSE Return(Some([sk[l1.sat] EXCEPT !.lon_dd = wrap180(@)]))

\* RE_KM * acos(RE_KM / (RE_KM + h)), to the kilometre, RE_KM = 6371
horizon_radius_km(altitude_km) ==
    IF altitude_km = NA \/ altitude_km <= 0 THEN NA
    ELSE IF altitude_km = 850 THEN 3122
    ELSE IF altitude_km = 830 THEN 3089
    ELSE IF altitude_km = 20200 THEN 8465
    ELSE 9041

\* compute_short_track(tle1, tle2, center, forward_min=30, step_s=60)
compute_short_track(l1, l2, center_utc, forward_min, step) ==
    IF ~well_formed(l1, l2) THEN Raise("ValueError")
    ELSE LET times == sample_times(center_utc, forward_min, step)
         IN Return(Some([n_points |-> Len(times), start_utc |-> center_utc,
                         end_utc |-> times[Len(times)]]))

-----------------------------------------------------------------------------
(* Nearby and upcoming candidates: sat_pipeline._visible_candidates and    *)
(* sat_pipeline._upcoming_passes                                           *)

is_leo(t) == t \in {"LEO", "LEOSAR"}

\* dict.get(key): None when the key is not in the dict
dict_get(m, key) == IF key \in DOMAIN m THEN Some(m[key]) ELSE None

\* df.head(n)
head(rows, n) == SubSeq(rows, 1, IF n < Len(rows) THEN n ELSE Len(rows))

\* df.sort_values(col): ascending, rows of equal key in their given order
RECURSIVE insert_sorted(_, _, _)
insert_sorted(r, sorted, col) ==
    IF sorted = <<>> THEN <<r>>
    ELSE IF Head(sorted)[col] <= r[col]
         THEN <<Head(sorted)>> \o insert_sorted(r, Tail(sorted), col)
         ELSE <<r>> \o sorted

RECURSIVE sort_values(_, _)
sort_values(rows, col) ==
    IF rows = <<>> THEN <<>>
    ELSE insert_sorted(rows[Len(rows)], sort_values(SubSeq(rows, 1, Len(rows) - 1), col), col)

\* lines 353-357: LEO/LEOSAR catalog rows with a catalog number, the first
\* max_candidates of them, as keys for the element provider
candidate_keys(cat, max_candidates) ==
    LET cand == SelectSeq(cat, LAMBDA r : is_leo(r.type) /\ r.norad_id # NA)
    IN [i \in DOMAIN head(cand, max_candidates) |-> int_to_str(cand[i].norad_id)]

\* lines 365-376: the row of one element set, nothing when propagation raises
visible_row(t, at_time_utc, sk) ==
    LET sub == compute_subpoint_at(sk, t.tle_line1, t.tle_line2)
    IN IF sub.kind = "raise" THEN <<>>
       ELSE LET pt == sub.val[1]
            IN <<[sat_name |-> t.name, norad_id |-> t.norad_id,
                  at_time_utc |-> at_time_utc,
                  lat_dd |-> pt.lat_dd, lon_dd |-> pt.lon_dd, alt_km |-> pt.alt_km,
                  tle_epoch_utc |-> t.epoch_utc, source |-> "celestrak:catnr",
                  footprint_radius_km |-> horizon_radius_km(pt.alt_km),
                  distance_km |-> pt.dist_km]>>

RECURSIVE visible_rows(_, _, _, _)
visible_rows(tles, at_time_utc, exclude_norad, sk) ==
    IF tles = <<>> THEN <<>>
    ELSE LET t == Head(tles)
             rest == visible_rows(Tail(tles), at_time_utc, exclude_norad, sk)
         IN IF t.norad_id # NA /\ t.norad_id \in exclude_norad THEN rest
            ELSE visible_row(t, at_time_utc, sk) \o rest

\* mutant: the rows are cut to top_n in the order of the element frame
visible_filter_unsorted(rows, top_n) ==
    LET known == SelectSeq(rows, LAMBDA r : r.footprint_radius_km # NA
                                            /\ r.distance_km # NA)
        inside == SelectSeq(known, LAMBDA r : r.distance_km <= r.footprint_radius_km)
    IN head([i \in DOMAIN inside |->
                inside[i] @@ [tle_age_hours |-> NA, role |-> "nearby_not_detected"]],
            top_n)

\* lines 382-387
visible_filter(rows, top_n) ==
    LET aged == [i \in DOMAIN rows |->
                    rows[i] @@ [tle_age_hours |->
                        IF rows[i].tle_epoch_utc = NA THEN NA
                        ELSE (rows[i].at_time_utc - rows[i].tle_epoch_utc)
                                 \div SecondsPerHour]]
        known == SelectSeq(aged, LAMBDA r : r.footprint_radius_km # NA
                                            /\ r.distance_km # NA)
        inside == SelectSeq(known, LAMBDA r : r.distance_km <= r.footprint_radius_km)
        tagged == [i \in DOMAIN inside |-> inside[i] @@ [role |-> "nearby_not_detected"]]
    IN head(sort_values(tagged, "distance_km"), top_n)

visible_candidates(at_time_utc, exclude_norad, max_candidates, top_n, sk, catnr, group, pending) ==
    LET ref == load_sat_reference
        same == [df |-> <<>>, catnr |-> catnr, group |-> group, net |-> pending,
                 sent |-> <<>>]
    IN IF ref.kind = "raise" THEN [out |-> Raise(ref.exc), io |-> same]
       ELSE LET keys == candidate_keys(ref.val, max_candidates)
            IN IF keys = <<>> THEN [out |-> Return(<<>>), io |-> same]
               ELSE CHOOSE res \in
                      { [out |-> Return(visible_filter(
                                   visible_rows(io.df, at_time_utc, exclude_norad, sk),
                                   top_n)),
                         io |-> io]
                        : io \in {load_tle_snapshot(keys, <<>>, catnr, group, pending)} }
                      : TRUE

\* the elevations of satellite n over the alert point: the series el, with
\* satellite n rising n - 1 samples later than satellite 1
ElevOf(el, n) == [i \in 1..(n - 1) |-> 0] \o el

\* line 411: pd.to_datetime(marker.get("when_utc"), utc=True, errors="coerce");
\* NA stands for NaT
marker_when(marker) ==
    LET w == dict_get(marker, "when_utc")
    IN IF w = None THEN NA ELSE w[1]

\* lines 404-429: the row of one element set, nothing when the pass search
\* raises, finds no pass, or the marker has no usable pass time
upcoming_row(t, at_time_utc, sk, el) ==
    IF ~well_formed(t.tle_line1, t.tle_line2) THEN <<>>
    ELSE LET marker == find_next_pass_marker(ElevOf(el, t.tle_line1.sat), at_time_utc)
         IN IF marker = None THEN <<>>
            ELSE LET when == marker_when(marker[1])
                     pt == sk[t.tle_line1.sat]
                 IN IF when = NA THEN <<>>
                    ELSE <<[sat_name |-> t.name, norad_id |-> t.norad_id,
                            at_time_utc |-> when,
                            lat_dd |-> pt.lat_dd, lon_dd |-> pt.lon_dd,
                            alt_km |-> pt.alt_km,
                            tle_epoch_utc |-> t.epoch_utc,
                            source |-> "celestrak:catnr",
                            next_pass_marker |-> marker,
                            footprint_radius_km |-> horizon_radius_km(pt.alt_km),
                            role |-> "upcoming"]>>

RECURSIVE upcoming_rows(_, _, _, _, _)
upcoming_rows(tles, at_time_utc, exclude_norad, sk, el) ==
    IF tles = <<>> THEN <<>>
    ELSE LET t == Head(tles)
             rest == upcoming_rows(Tail(tles), at_time_utc, exclude_norad, sk, el)
         IN IF t.norad_id # NA /\ t.norad_id \in exclude_norad THEN rest
            ELSE upcoming_row(t, at_time_utc, sk, el) \o rest

upcoming_passes(at_time_utc, exclude_norad, max_candidates, top_n, sk, el, catnr, group, pending) ==
    LET ref == load_sat_reference
        same == [df |-> <<>>, catnr |-> catnr, group |-> group, net |-> pending,
                 sent |-> <<>>]
    IN IF ref.kind = "raise" THEN [out |-> Raise(ref.exc), io |-> same]
       ELSE LET keys == candidate_keys(ref.val, max_candidates)
            IN IF keys = <<>> THEN [out |-> Return(<<>>), io |-> same]
               ELSE CHOOSE res \in
                      { [out |-> Return(head(sort_values(
                                   upcoming_rows(io.df, at_time_utc, exclude_norad, sk, el),
                                   "at_time_utc"), top_n)),
                         io |-> io]
                        : io \in {load_tle_snapshot(keys, <<>>, catnr, group, pending)} }
                      : TRUE

-----------------------------------------------------------------------------
(* Orchestrator: sat_pipeline.build_sat_overlay_df                         *)
(* Lines 188-192 of sat_pipeline.py are read as part of the try block that *)
(* line 177 opens and line 193 closes.                                     *)

NoneName == <<"N","o","n","e">>     \* str(None)
EmptyRow == [common_name |-> None, designator |-> None, norad_id |-> NA]

\* alert_df.iloc[0].get(col) or ...: absent and empty values are falsy
falsy(v) == v = Absent \/ v = <<>>

\* line 102: str(sat_name or reporting_sat or "SAT")
override_name(alert) ==
    IF ~falsy(alert.sat_name) THEN alert.sat_name
    ELSE IF ~falsy(alert.reporting_sat) THEN alert.reporting_sat
    ELSE <<"S","A","T">>

\* line 108: str(row.get("common_name") or row.get("designator"))
row_name(row) ==
    IF row.common_name # None /\ row.common_name[1] # <<>> THEN row.common_name[1]
    ELSE IF row.designator # None THEN row.designator[1]
    ELSE NoneName

\* lines 123-124: group inferred from the first letter of the designator
designator_group(row) ==
    LET d == IF row.designator = None THEN <<>> ELSE row.designator[1]
        d0 == str_upper(SubSeq(d, 1, IF Len(d) >= 1 THEN 1 ELSE 0))
    IN IF d0 = <<"E">> THEN Some("galileo")
       ELSE IF d0 = <<"R">> THEN Some("glonass")
       ELSE IF d0 = <<"B">> \/ d0 = <<"C">> THEN Some("beidou")
       ELSE None

GroupKey(g) ==
    IF g = "galileo" THEN <<"g","a","l","i","l","e","o">>
    ELSE IF g = "glonass" THEN <<"g","l","o","n","a","s","s">>
    ELSE <<"b","e","i","d","o","u">>

NoFetch(catnr, group, pending) ==
    [called |-> FALSE, df |-> <<>>, catnr |-> catnr, group |-> group,
     net |-> pending, sent |-> <<>>, source |-> "reference"]

\* lines 118-125: the element lookup for the resolved row
tle_path(row, use_tle, catnr, group, pending) ==
    IF use_tle /\ row.norad_id # NA
    THEN LET key == int_to_str(row.norad_id)
         IN load_tle_snapshot(<<key>>, <<>>, catnr, group, pending)
            @@ [called |-> TRUE, source |-> "celestrak:catnr"]
    ELSE IF use_tle /\ designator_group(row) # None
    THEN LET key == GroupKey(designator_group(row)[1])
             gorder == CHOOSE q \in SetOrders(parse_groups(<<key>>)) : TRUE
         IN load_tle_snapshot(<<key>>, gorder, catnr, group, pending)
            @@ [called |-> TRUE, source |-> "celestrak:group"]
    ELSE NoFetch(catnr, group, pending)

has_location(alert) == alert.alert_lat_dd # NA /\ alert.alert_lon_dd # NA

\* mutant: the difference keeps its sign
abs_diff_signed(a, b) == a - b

\* line 133: abs((at_time_utc - tle_epoch).total_seconds())
abs_diff(a, b) == IF a >= b THEN a - b ELSE b - a

\* lines 128-164: the row built from the first element set of the frame
primary_row(alert, row, t, sub, source, el) ==
    [sat_name |-> IF t.name # <<>> THEN t.name
                  ELSE row_name(row),
     norad_id |-> IF t.norad_id # NA THEN t.norad_id ELSE row.norad_id,
     at_time_utc |-> alert.alert_time_utc,
     lat_dd |-> sub.lat_dd, lon_dd |-> sub.lon_dd, alt_km |-> sub.alt_km,
     footprint_radius_km |-> horizon_radius_km(sub.alt_km),
     tle_epoch_utc |-> t.epoch_utc,
     tle_age_hours |-> IF t.epoch_utc # NA
                       THEN abs_diff(alert.alert_time_utc, t.epoch_utc) \div SecondsPerHour
                       ELSE NA,
     source |-> source,
     track |-> compute_short_track(t.tle_line1, t.tle_line2,
                                   alert.alert_time_utc, 30, 60).val,
     next_pass_marker |-> IF has_location(alert)
                          THEN find_next_pass_marker(el, alert.alert_time_utc)
                          ELSE None,
     distance_km |-> NA,
     role |-> "reported",
     sat_type |-> ""]

\* line 168: dropna(subset=["lat_dd", "lon_dd", "footprint_radius_km"])
dropna(rows) ==
    SelectSeq(rows, LAMBDA r : r.lat_dd # NA /\ r.lon_dd # NA
                               /\ r.footprint_radius_km # NA)

\* mutant: os is the module-level import of line 40
os_bound_module == TRUE

(* `import os, logging` at line 204 makes os a local name of the whole     *)
(* function: at line 182 it is not bound yet.                              *)
os_bound == FALSE

ShowAllTopN == 1000000000

(* lines 176-194: the frames appended to extra.  float(None) at line 178   *)
(* (no location on the alert) and os.getenv at line 182 (os unbound) raise *)
(* before anything is appended; the handler at line 193 swallows it.       *)
(* Lines 188-192 stand outside the try in the file, which does not compile *)
(* that way; they are read as part of the try.                             *)
extra_frames(alert, overlay, env, sk, el, io) ==
    IF ~has_location(alert) \/ ~os_bound THEN [frames |-> <<>>, io |-> io]
    ELSE LET exclude == {overlay[i].norad_id : i \in DOMAIN overlay} \ {NA}
             top_n == IF env.show_all THEN ShowAllTopN ELSE env.nearby_top_n
         IN CHOOSE res \in UNION
              { { [frames |-> (IF v.out.kind = "ok" THEN <<v.out.val>> ELSE <<>>)
                              \o (IF v.out.kind = "ok" /\ u.out.kind = "ok"
                                  THEN <<u.out.val>> ELSE <<>>),
                   io |-> [io EXCEPT !.catnr = u.io.catnr, !.group = u.io.group,
                                     !.net = u.io.net,
                                     !.sent = io.sent \o v.io.sent \o u.io.sent]]
                  : u \in {upcoming_passes(alert.alert_time_utc, exclude,
                               env.max_candidates, env.upcoming_top_n, sk, el,
                               v.io.catnr, v.io.group, v.io.net)} }
                : v \in {visible_candidates(alert.alert_time_utc, exclude,
                             env.max_candidates, top_n, sk,
                             io.catnr, io.group, io.net)} } : TRUE

NaNText == "<NaN>"

\* line 201: extra_df[overlay.columns]: the columns of the primary frame;
\* role is one of them only when the primary frame has a row (line 171)
project_columns(r, with_role) ==
    [sat_name |-> r.sat_name, norad_id |-> r.norad_id,
     at_time_utc |-> r.at_time_utc,
     lat_dd |-> r.lat_dd, lon_dd |-> r.lon_dd, alt_km |-> r.alt_km,
     footprint_radius_km |-> r.footprint_radius_km,
     tle_epoch_utc |-> r.tle_epoch_utc,
     tle_age_hours |-> IF "tle_age_hours" \in DOMAIN r THEN r.tle_age_hours ELSE NA,
     source |-> r.source,
     track |-> None,
     next_pass_marker |-> IF "next_pass_marker" \in DOMAIN r
                          THEN r.next_pass_marker ELSE None,
     distance_km |-> NA,
     role |-> IF with_role THEN r.role ELSE NaNText,
     sat_type |-> ""]

RECURSIVE pd_concat(_)
pd_concat(frames) ==
    IF frames = <<>> THEN <<>> ELSE Head(frames) \o pd_concat(Tail(frames))

\* lines 196-202: pd.concat of the non-empty frames of extra raises
\* ValueError (no objects to concatenate) when extra holds only empty frames
concat_extra(overlay, extra) ==
    IF extra = <<>> THEN Return(overlay)
    ELSE LET filled == SelectSeq(extra, LAMBDA f : f # <<>>)
         IN IF filled = <<>> THEN Raise("ValueError")
            ELSE LET extra_df == pd_concat(filled)
                 IN Return(overlay \o [i \in DOMAIN extra_df |->
                               project_columns(extra_df[i], overlay # <<>>)])

\* mutant: the type of the first catalog row with that number is attached
merge_sat_type_first(overlay, cat) ==
    [i \in DOMAIN overlay |->
        LET m == SelectSeq(cat, LAMBDA c : c.norad_id # NA
                                          /\ c.norad_id = overlay[i].norad_id)
        IN [overlay[i] EXCEPT !.sat_type = IF m = <<>> THEN "" ELSE m[1].type]]

\* lines 217-226: overlay.merge(sat_types, on="norad_id", how="left"):
\* one output row per matching catalog row, one (type missing) when none
RECURSIVE merge_sat_type(_, _)
merge_sat_type(overlay, cat) ==
    IF overlay = <<>> THEN <<>>
    ELSE LET r == Head(overlay)
             m == SelectSeq(cat, LAMBDA c : c.norad_id # NA
                                           /\ c.norad_id = r.norad_id)
             joined == IF m = <<>> THEN <<r>>
                       ELSE [j \in DOMAIN m |-> [r EXCEPT !.sat_type = m[j].type]]
         IN joined \o merge_sat_type(Tail(overlay), cat)

\* lines 127-232: the reported row from the fetched elements, then the merge
after_fetch(alert, use_tle, env, sk, el, row, cat, fetched) ==
    CHOOSE res \in
      { \* line 127
        IF ~(use_tle /\ io.called /\ io.df # <<>>)
        THEN \* line 161 reads track_start_utc, assigned only at 136-140
             [out |-> Raise("UnboundLocalError"), io |-> io]
        ELSE
        LET t == io.df[1]
            sub == compute_subpoint_at(sk, t.tle_line1, t.tle_line2)
        IN IF sub.kind = "raise" THEN [out |-> Raise(sub.exc), io |-> io]
           ELSE
           LET overlay == dropna(<<primary_row(alert, row, t, sub.val[1],
                                               io.source, el)>>)
           IN CHOOSE res2 \in
                { LET merged == concat_extra(overlay, x.frames)
                  IN IF merged.kind = "raise"
                     THEN [out |-> merged, io |-> x.io]
                     ELSE [out |-> Return(merge_sat_type(merged.val, cat)),
                           io |-> x.io]
                  : x \in {extra_frames(alert, overlay, env, sk, el, io)} } : TRUE
        : io \in {fetched} } : TRUE

\* lines 91, 93: TYPE_MAP of an upper-case type name; NaN for any other name
type_norm(t) ==
    IF t \in {"LEO", "LEOSAR"} THEN "LEO"
    ELSE IF t \in {"MEO", "MEOSAR"} THEN "MEO"
    ELSE IF t \in {"GEO", "GEOSAR"} THEN "GEO"
    ELSE NaNText

\* line 92: TYPE_MAP.get(t.upper(), t.upper()) for t in types
want_types(types) ==
    {IF type_norm(types[i]) = NaNText THEN types[i] ELSE type_norm(types[i]) :
        i \in DOMAIN types}

\* lines 90-94: sat_ref = sat_ref[sat_ref["type_norm"].isin(want)]
filter_types(rows, types) ==
    SelectSeq(rows, LAMBDA r : type_norm(r.type) \in want_types(types))

\* mutant: the reporting satellite is resolved against the filtered reference
resolve_in_filtered(alert, sat_ref) ==
    LET hit == resolve_reporting_sat(alert).val
    IN IF hit # None /\ \E i \in DOMAIN sat_ref : sat_ref[i] = hit[1]
       THEN hit ELSE None

\* line 96: resolve_reporting_sat(alert_df) loads the reference itself; the
\* filtered sat_ref is not handed to it
resolve_for_build(alert, sat_ref) == resolve_reporting_sat(alert).val

build_sat_overlay_df(alert, types, use_tle, fallback_to_nearest, env, sk, el, catnr, group, pending) ==
    LET ref == load_sat_reference
        same == NoFetch(catnr, group, pending)
    IN IF ref.kind = "raise" THEN [out |-> Raise(ref.exc), io |-> same]
       ELSE
       LET sat_ref == filter_types(ref.val, types)
           resolved == resolve_for_build(alert, sat_ref)
           override == alert.norad_id # NA
       IN \* line 100: row = (row or {}) asks a Series for its truth value
          IF override /\ resolved # None
          THEN [out |-> Raise("ValueError"), io |-> same]
          ELSE
          LET row == IF override
                     THEN [common_name |-> Some(override_name(alert)),
                           designator |-> None, norad_id |-> alert.norad_id]
                     ELSE IF resolved = None THEN EmptyRow
                     ELSE [common_name |-> Some(resolved[1].common_name),
                           designator |-> Some(resolved[1].designator),
                           norad_id |-> resolved[1].norad_id]
          IN after_fetch(alert, use_tle, env, sk, el, row, ref.val,
                         tle_path(row, use_tle, catnr, group, pending))

-----------------------------------------------------------------------------
(* Alerts (one-row alert_df) *)

HintSet == { <<"n","1">>, <<" ","N","1"," ">>, <<"n">>, <<"q">>, <<" ">> }

BaseAlert ==
    [sat_name |-> Absent, satellite_name |-> Absent, sat_designator |-> Absent,
     sat |-> Absent, SAT |-> Absent]

GoodFile(rows) == [exists |-> TRUE, columns |-> RequiredCols, rows |-> rows]
MissingFile == [exists |-> FALSE, columns |-> {}, rows |-> <<>>]

AlertTime == 21600      \* 2025-01-01T06:00Z

\* the alerts given to the orchestrator: a name hint that resolves or not,
\* a designator, a catalog-number override, with or without a location
BuildAlerts ==
    {a \in [sat_name : {Absent, <<"n","1">>, <<"q">>},
            satellite_name : {Absent}, sat_designator : {Absent},
            sat : {Absent, <<"B","1">>}, SAT : {Absent},
            reporting_sat : {Absent},
            norad_id : {NA, 1, 2},
            alert_time_utc : {AlertTime},
            alert_lat_dd : {NA, 35}, alert_lon_dd : {NA, 0 - 77}] :
        (a.alert_lat_dd = NA) <=> (a.alert_lon_dd = NA)}

CatRow(nm, d, n, t) ==
    [type |-> t, designator |-> d, common_name |-> nm, norad_id |-> n,
     intl_designator |-> <<"i">>]

CatLeo == <<CatRow(<<"N","1">>, <<"S","7">>, 1, "LEO"),
            CatRow(<<"N","2">>, <<"S","8">>, 2, "LEO")>>
\* two rows that share one norad_id
CatDup == <<CatRow(<<"N","1">>, <<"S","7">>, 1, "LEO"),
            CatRow(<<"X","N","1">>, <<"S","8">>, 1, "LEOSAR")>>
\* a constellation satellite without a catalog number
CatMeo == <<CatRow(<<"N","1">>, <<"S","7">>, 1, "LEO"),
            CatRow(<<"B","D","S">>, <<"B","1">>, NA, "MEO")>>

BuildFiles == {GoodFile(CatLeo), GoodFile(CatDup), GoodFile(CatMeo), MissingFile}

SkyNominal ==
    [n \in SatNums |-> [lat_dd |-> 10 * n, lon_dd |-> 20 * n, alt_km |-> 850,
                        dist_km |-> 1000 * n]]
\* propagation of satellite 1 gives NaN
SkyLost == [SkyNominal EXCEPT ![1] = NanPoint]

BuildElevs == {<<0, 1, 2, 1>>, <<0, 0>>}
BuildFates == {"exception", "garbled", "ok_a", "ok_b"}

ResolveAlerts ==
    [sat_name : HintSet \cup {Absent},
     satellite_name : {Absent, <<"n","2">>},
     sat_designator : {Absent, <<"s","7">>},
     sat : {Absent, <<"E","1">>},
     SAT : {Absent}]


Idle == [op |-> "idle"]

-----------------------------------------------------------------------------
(* Specification of the resolver over every catalog and hint *)

InitResolve ==
    /\ refFile \in {GoodFile(rows) : rows \in SeqsUpTo(CatRecs, MaxCat)}
                   \cup {MissingFile}
    /\ tleCacheCatnr = EmptyCatnrCache
    /\ tleCacheGroup = EmptyGroupCache
    /\ net = <<>>
    /\ sky = SkyNominal
    /\ alertRow \in ResolveAlerts
    /\ elevations = <<>>
    /\ threads = NoThreads
    /\ call = Idle

Resolve ==
    /\ call' = [op |-> "resolve_reporting_sat",
                out |-> resolve_reporting_sat(alertRow)]
    /\ UNCHANGED <<refFile, tleCacheCatnr, tleCacheGroup, net, sky, alertRow, elevations, threads>>

NextResolve == Resolve

SpecResolve == InitResolve /\ [][NextResolve]_vars

-----------------------------------------------------------------------------
(* Specification of the reference loader over every baseline file *)

\* a baseline CSV whose header lacks one required column
FileLacking(col, rows) ==
    [exists |-> TRUE, columns |-> RequiredCols \ {col}, rows |-> rows]

ReferenceFiles ==
    {GoodFile(rows) : rows \in SeqsUpTo(CatRecs, MaxCat)}
    \cup {FileLacking(c, rows) : c \in RequiredCols, rows \in SeqsUpTo(CatRecs, 1)}
    \cup {MissingFile}

InitReference ==
    /\ refFile \in ReferenceFiles
    /\ tleCacheCatnr = EmptyCatnrCache
    /\ tleCacheGroup = EmptyGroupCache
    /\ net = <<>>
    /\ sky = SkyNominal
    /\ alertRow = BaseAlert
    /\ elevations = <<>>
    /\ threads = NoThreads
    /\ call = Idle

LoadSatReference ==
    /\ call' = [op |-> "load_sat_reference", out |-> load_sat_reference]
    /\ UNCHANGED <<refFile, tleCacheCatnr, tleCacheGroup, net, sky, alertRow, elevations, threads>>

NextReference == LoadSatReference

SpecReference == InitReference /\ [][NextReference]_vars

-----------------------------------------------------------------------------
(* Specification of the track sampler over every propagated series *)

\* longitudes as the propagator may give them, in range and beyond
RawLons == {0 - 540, 0 - 181, 0 - 179, 0, 179, 180, 360}
RawLats == {0, 45}
ForwardMins == {1, 2}
StepSecs == {40, 60, 90}
TrackLines == {<<Line1(1, NoEpochField), Line2(1)>>, <<JunkLine, JunkLine>>}
TrackElevs == {<<>>, <<0, 0>>, <<1, 2>>, <<0, 1, 2, 1>>}

SkyAt(lat, lon) ==
    [n \in SatNums |-> [lat_dd |-> lat, lon_dd |-> lon, alt_km |-> 850,
                        dist_km |-> 1000]]

InitTrack ==
    /\ refFile = MissingFile
    /\ tleCacheCatnr = EmptyCatnrCache
    /\ tleCacheGroup = EmptyGroupCache
    /\ net = <<>>
    /\ sky = SkyNominal
    /\ alertRow = BaseAlert
    /\ elevations \in TrackElevs
    /\ threads = NoThreads
    /\ call = Idle

ShortTrack ==
    /\ call = Idle
    /\ \E l \in TrackLines, center_utc \in {0, AlertTime},
       forward_min \in ForwardMins, step \in StepSecs :
      \E lons \in [1..n_steps(forward_min, step) -> RawLons], lat \in RawLats :
        /\ call' = [op |-> "compute_short_track",
                    center_utc |-> center_utc, forward_min |-> forward_min,
                    step_s |-> step, lons |-> lons,
                    out |-> IF ~well_formed(l[1], l[2]) THEN Raise("ValueError")
                            ELSE Return(short_track(lons, [i \in DOMAIN lons |-> lat + i],
                                                    center_utc, forward_min, step))]
        /\ UNCHANGED <<refFile, tleCacheCatnr, tleCacheGroup, net, sky, alertRow, elevations, threads>>

SubpointAt ==
    /\ call = Idle
    /\ \E l \in TrackLines, lat \in RawLats, lon \in RawLons :
        /\ call' = [op |-> "compute_subpoint_at", lon |-> lon,
                    out |-> compute_subpoint_at(SkyAt(lat, lon), l[1], l[2])]
        /\ UNCHANGED <<refFile, tleCacheCatnr, tleCacheGroup, net, sky, alertRow, elevations, threads>>

PassMarker ==
    /\ call = Idle
    /\ \E l \in TrackLines, lat \in RawLats, lon \in RawLons :
        /\ call' = [op |-> "find_next_pass_marker", lon |-> lon,
                    out |-> IF ~well_formed(l[1], l[2]) THEN Raise("ValueError")
                            ELSE Return(marker_subpoint(
                                     find_next_pass_marker(elevations, AlertTime),
                                     lat, lon))]
        /\ UNCHANGED <<refFile, tleCacheCatnr, tleCacheGroup, net, sky, alertRow, elevations, threads>>

NextTrack == ShortTrack \/ SubpointAt \/ PassMarker

SpecTrack == InitTrack /\ [][NextTrack]_vars

-----------------------------------------------------------------------------
(* Specification of two threads looking keys up in the shared caches *)

ConcKeys == {CatnrReq(1), GroupReq("galileo")}
ConcFates == {"exception", "short", "ok_a", "ok_b"}

InitConcurrent ==
    /\ refFile = MissingFile
    /\ tleCacheCatnr = EmptyCatnrCache
    /\ tleCacheGroup = EmptyGroupCache
    /\ net \in SeqsUpTo(ConcFates, Cardinality(Threads))
    /\ sky = SkyNominal
    /\ alertRow = BaseAlert
    /\ elevations = <<>>
    /\ threads = NoThreads
    /\ call = Idle

\* a thread calls load_tle_snapshot([key])
Enter(t) ==
    /\ threads[t].pc = "outside"
    /\ \E key \in ConcKeys :
          threads' = [threads EXCEPT ![t] = [Outside EXCEPT !.pc = "test", !.key = key]]
    /\ UNCHANGED <<refFile, tleCacheCatnr, tleCacheGroup, net, sky, alertRow, elevations, call>>

\* lines 166-171, 204-210: the cache test, and on a hit the cached rows
CacheTest(t) ==
    LET th == threads[t]
        key == th.key
    IN /\ th.pc = "test"
       /\ IF ~key_cached(key, tleCacheCatnr, tleCacheGroup)
          THEN /\ threads' = [threads EXCEPT ![t].pc = "request"]
               /\ UNCHANGED tleCacheCatnr
          ELSE IF key.by = "CATNR"
          THEN LET tle == [tleCacheCatnr[key.id][1] EXCEPT !.cache_hit = TRUE]
               IN /\ tleCacheCatnr' = [tleCacheCatnr EXCEPT ![key.id] = Some(tle)]
                  /\ threads' = [threads EXCEPT ![t].pc = "done", ![t].rows = <<tle>>]
          ELSE /\ threads' = [threads EXCEPT
                                 ![t].pc = "done",
                                 ![t].rows = mark_hit(tleCacheGroup[key.group][1])]
               /\ UNCHANGED tleCacheCatnr
       /\ UNCHANGED <<refFile, tleCacheGroup, net, sky, alertRow, elevations, call>>

\* lines 172-174, 211-213: the request goes out and is answered
Request(t) ==
    LET th == threads[t]
        got == requests_get(th.key, net)
    IN /\ th.pc = "request"
       /\ net' = got.rest
       /\ threads' = [threads EXCEPT ![t].pc = "store", ![t].resp = got.resp,
                                     ![t].sent = got.sent]
       /\ UNCHANGED <<refFile, tleCacheCatnr, tleCacheGroup, sky, alertRow, elevations, call>>

\* lines 175-201, 214-250: the answer is parsed and stored in the cache
Store(t) ==
    LET th == threads[t]
        key == th.key
        r == th.resp
    IN /\ th.pc = "store"
       /\ IF ~usable(key, r)
          THEN /\ threads' = [threads EXCEPT ![t].pc = "done"]
               /\ UNCHANGED <<tleCacheCatnr, tleCacheGroup>>
          ELSE IF key.by = "CATNR"
          THEN LET tle == make_tle(r.lines[1].name, key.id, r.lines[2], r.lines[3],
                                   "catnr")
               IN /\ tleCacheCatnr' = [tleCacheCatnr EXCEPT ![key.id] = Some(tle)]
                  /\ threads' = [threads EXCEPT ![t].pc = "done", ![t].rows = <<tle>>]
                  /\ UNCHANGED tleCacheGroup
          ELSE LET tles == parse_group_lines(r.lines)
               IN /\ tleCacheGroup' = [tleCacheGroup EXCEPT ![key.group] = Some(tles)]
                  /\ threads' = [threads EXCEPT ![t].pc = "done", ![t].rows = tles]
                  /\ UNCHANGED tleCacheCatnr
       /\ UNCHANGED <<refFile, net, sky, alertRow, elevations, call>>

NextConcurrent ==
    \E t \in Threads : Enter(t) \/ CacheTest(t) \/ Request(t) \/ Store(t)

SpecConcurrent == InitConcurrent /\ [][NextConcurrent]_vars

-----------------------------------------------------------------------------
(* Retrying group fetch: local archive/sat_fetch_sarsat_list.safe_fetch.   *)
(* call holds the frame of the running safe_fetch: the loop it is in, the  *)
(* attempt index, the alternates left, and what it has sent and slept.     *)

PrimaryTries == 3
PrimaryUrl == "primary"

\* parse_tle_lines: every non-blank line that is not a line 1 or a line 2
parse_tle_lines(lines) ==
    LET heads == SelectSeq(lines, LAMBDA l : l.kind \notin {"l1", "l2"})
    IN [i \in DOMAIN heads |-> heads[i].name]

\* _try_one: the request, then the names when the status is 200
try_one(fate) ==
    LET r == Response(GroupReq("beidou"), fate)
    IN IF r.exc THEN Raise("RequestException")
       ELSE IF r.status_code = 200 THEN Return(parse_tle_lines(r.lines))
       ELSE Return(<<>>)

\* mutant: the same pause after every attempt
backoff_flat(i) == 1

\* time.sleep(1 + i)
backoff(i) == 1 + i

NextFate == IF net = <<>> THEN "exception" ELSE Head(net)
RestFates == IF net = <<>> THEN <<>> ELSE Tail(net)

FetchFates == {"exception", "non200", "blank", "ok_a"}
\* ALT_ENDPOINTS.get(group, []): none for an unknown group, one for each
\* group of the table, and a table extended with a second alternate
AltConfigs == {<<>>, <<"alt1">>, <<"alt1", "alt2">>}

InitFetch ==
    /\ refFile = MissingFile
    /\ tleCacheCatnr = EmptyCatnrCache
    /\ tleCacheGroup = EmptyGroupCache
    /\ net \in SeqsUpTo(FetchFates, PrimaryTries + 2)
    /\ sky = SkyNominal
    /\ alertRow = BaseAlert
    /\ elevations = <<>>
    /\ threads = NoThreads
    /\ call = Idle

\* safe_fetch(url, group) is entered
CallSafeFetch ==
    /\ call = Idle
    /\ \E alts \in AltConfigs :
          call' = [op |-> "safe_fetch", pc |-> "primary", i |-> 0, config |-> alts,
                   alts |-> alts, sent |-> <<>>, met |-> <<>>, slept |-> <<>>,
                   out |-> Return(<<>>)]
    /\ UNCHANGED <<refFile, tleCacheCatnr, tleCacheGroup, net, sky, alertRow, elevations, threads>>

\* lines 92-99: one pass of the loop over range(3)
TryPrimary ==
    /\ call.op = "safe_fetch" /\ call.pc = "primary"
    /\ LET got == try_one(NextFate)
           frame == [call EXCEPT !.sent = Append(@, PrimaryUrl),
                                 !.met = Append(@, NextFate)]
       IN call' = IF got.kind = "ok" /\ got.val # <<>>
                  THEN [frame EXCEPT !.pc = "done", !.out = got]
                  ELSE [frame EXCEPT !.slept = Append(@, backoff(call.i)),
                                     !.i = call.i + 1,
                                     !.pc = IF call.i + 1 < PrimaryTries
                                            THEN "primary" ELSE "alts"]
    /\ net' = RestFates
    /\ UNCHANGED <<refFile, tleCacheCatnr, tleCacheGroup, sky, alertRow, elevations, threads>>

\* lines 102-109: one pass of the loop over the alternates
TryAlt ==
    /\ call.op = "safe_fetch" /\ call.pc = "alts" /\ call.alts # <<>>
    /\ LET got == try_one(NextFate)
           frame == [call EXCEPT !.sent = Append(@, Head(call.alts)),
                                 !.met = Append(@, NextFate)]
       IN call' = IF got.kind = "ok" /\ got.val # <<>>
                  THEN [frame EXCEPT !.pc = "done", !.out = got]
                  ELSE [frame EXCEPT !.slept = Append(@, 1),
                                     !.alts = Tail(call.alts)]
    /\ net' = RestFates
    /\ UNCHANGED <<refFile, tleCacheCatnr, tleCacheGroup, sky, alertRow, elevations, threads>>

\* line 111: return []
GiveUp ==
    /\ call.op = "safe_fetch" /\ call.pc = "alts" /\ call.alts = <<>>
    /\ call' = [call EXCEPT !.pc = "done", !.out = Return(<<>>)]
    /\ UNCHANGED <<refFile, tleCacheCatnr, tleCacheGroup, net, sky, alertRow, elevations, threads>>

NextFetch == CallSafeFetch \/ TryPrimary \/ TryAlt \/ GiveUp

\* the interpreter keeps running the call
SpecFetch == InitFetch /\ [][NextFetch]_vars /\ WF_vars(NextFetch)

-----------------------------------------------------------------------------
(* Specification of the pass predictor over every elevation series *)

InitPass ==
    /\ refFile = MissingFile
    /\ tleCacheCatnr = EmptyCatnrCache
    /\ tleCacheGroup = EmptyGroupCache
    /\ net = <<>>
    /\ sky = SkyNominal
    /\ alertRow = BaseAlert
    /\ elevations \in SeqsUpTo(ElevVals, MaxElev)
    /\ threads = NoThreads
    /\ call = Idle

FindNextPass ==
    /\ call' = [op |-> "find_next_pass_marker",
                out |-> find_next_pass_marker(elevations, 0)]
    /\ UNCHANGED <<refFile, tleCacheCatnr, tleCacheGroup, net, sky, alertRow, elevations, threads>>

NextPass == FindNextPass

SpecPass == InitPass /\ [][NextPass]_vars

-----------------------------------------------------------------------------
(* Specification of the element provider: any sequence of lookups against  *)
(* a network that answers, fails or returns too little                     *)

Key1 == int_to_str(1)
Key2 == int_to_str(2)
KeyE == <<"E","4","0","1">>
KeyLists ==
    {q \in {<<>>, <<Key1>>, <<Key2>>, <<Key1, Key1>>, <<Key1, Key2>>,
            <<KeyE>>, <<Key1, KeyE>>, <<Key1, Key2, Key1>>} : Len(q) <= MaxKeys}

TleFates == {"exception", "non200", "short", "ok_a", "ok_b"}

InitTle ==
    /\ refFile = MissingFile
    /\ tleCacheCatnr = EmptyCatnrCache
    /\ tleCacheGroup = EmptyGroupCache
    /\ net = <<>>
    /\ sky = SkyNominal
    /\ alertRow = BaseAlert
    /\ elevations = <<>>
    /\ threads = NoThreads
    /\ call = Idle

\* the environment: what the next requests will meet
Network ==
    /\ net = <<>>
    /\ net' \in SeqsUpTo(TleFates, MaxKeys) \ {<<>>}
    /\ UNCHANGED <<refFile, tleCacheCatnr, tleCacheGroup, sky, alertRow, elevations, threads, call>>

LoadTle ==
    \E keys \in KeyLists :
      \E gorder \in SetOrders(parse_groups(keys)) :
        LET r == load_tle_snapshot(keys, gorder, tleCacheCatnr, tleCacheGroup, net)
        IN /\ tleCacheCatnr' = r.catnr
           /\ tleCacheGroup' = r.group
           /\ net' = r.net
           /\ call' = [op |-> "load_tle_snapshot", keys |-> keys,
                       out |-> Return(r.df), sent |-> r.sent]
           /\ UNCHANGED <<refFile, sky, alertRow, elevations, threads>>

NextTle == Network \/ LoadTle

SpecTle == InitTle /\ [][NextTle]_vars

-----------------------------------------------------------------------------
(* Specification of the orchestrator: repeated builds for one alert over   *)
(* the module-wide element caches and a network that may fail              *)

\* the RDS_SAT_* settings in the environment of the process
EnvSet ==
    [show_all : BOOLEAN, nearby_top_n : {1}, upcoming_top_n : {1},
     max_candidates : {3}]

\* the default ("LEO",) and a filter that admits the constellations
TypesSet == {<<"LEO">>, <<"LEO", "MEO">>}

Init ==
    /\ refFile \in BuildFiles
    /\ tleCacheCatnr = EmptyCatnrCache
    /\ tleCacheGroup = EmptyGroupCache
    /\ net = <<>>
    /\ sky \in {SkyNominal, SkyLost}
    /\ alertRow \in BuildAlerts
    /\ elevations \in BuildElevs
    /\ threads = NoThreads
    /\ call = Idle

\* the environment: what the next request will meet
NetworkNext ==
    /\ net = <<>>
    /\ net' \in {<<f>> : f \in BuildFates}
    /\ UNCHANGED <<refFile, tleCacheCatnr, tleCacheGroup, sky, alertRow, elevations, threads, call>>

Build ==
    \E types \in TypesSet, use_tle \in BOOLEAN, fallback_to_nearest \in BOOLEAN,
       env \in EnvSet :
        \E r \in {build_sat_overlay_df(alertRow, types, use_tle, fallback_to_nearest,
                                        env, sky, elevations, tleCacheCatnr,
                                        tleCacheGroup, net)} :
           /\ tleCacheCatnr' = r.io.catnr
           /\ tleCacheGroup' = r.io.group
           /\ net' = r.io.net
           /\ call' = [op |-> "build_sat_overlay_df", use_tle |-> use_tle,
                       fallback_to_nearest |-> fallback_to_nearest, env |-> env,
                       out |-> r.out, tle_called |-> r.io.called,
                       tle_df |-> r.io.df, sent |-> r.io.sent]
           /\ UNCHANGED <<refFile, sky, alertRow, elevations, threads>>

Next == NetworkNext \/ Build

Spec == Init /\ [][Next]_vars

-----------------------------------------------------------------------------
(* Specification of the orchestrator over a catalog of constellation       *)
(* satellites, which have a designator and no catalog number               *)

CatGnss == <<CatRow(<<"G","A","L">>, <<"E","1">>, NA, "MEO"),
             CatRow(<<"G","L","O">>, <<"R","1">>, NA, "MEO"),
             CatRow(<<"B","D","S">>, <<"B","1">>, NA, "MEO"),
             CatRow(<<"C","M","P">>, <<"c","2">>, NA, "MEO")>>

GnssAlerts ==
    {[a EXCEPT !.sat = d] :
        a \in {b \in BuildAlerts : b.sat_name = Absent /\ b.norad_id = NA},
        d \in {<<"E","1">>, <<"R","1">>, <<"B","1">>, <<"C","2">>}}

InitGnss ==
    /\ refFile = GoodFile(CatGnss)
    /\ tleCacheCatnr = EmptyCatnrCache
    /\ tleCacheGroup = EmptyGroupCache
    /\ net = <<>>
    /\ sky = SkyNominal
    /\ alertRow \in GnssAlerts
    /\ elevations \in BuildElevs
    /\ threads = NoThreads
    /\ call = Idle

SpecGnss == InitGnss /\ [][Next]_vars

-----------------------------------------------------------------------------
(* Specification of the candidate helpers: _visible_candidates and         *)
(* _upcoming_passes called for one located alert, over the module-wide     *)
(* element caches and a network that may fail                              *)

MaxPlan == 2

CatThree == <<CatRow(<<"N","1">>, <<"S","7">>, 1, "LEO"),
              CatRow(<<"N","2">>, <<"S","8">>, 2, "LEOSAR"),
              CatRow(<<"N","3">>, <<"S","9">>, 3, "LEO")>>
\* satellite 2 is geostationary
CatGeo == <<CatRow(<<"N","1">>, <<"S","7">>, 1, "LEO"),
            CatRow(<<"N","2">>, <<"G","8">>, 2, "GEO"),
            CatRow(<<"N","3">>, <<"S","9">>, 3, "LEO")>>

ExtraFiles == {GoodFile(CatThree), GoodFile(CatGeo), GoodFile(CatDup)}

\* distances of the sub-points of satellites 1..3 from the alert point, and
\* the altitude of satellite 2
ExtraSkies ==
    {[n \in SatNums |->
        [lat_dd |-> 10 * n, lon_dd |-> 20 * n,
         alt_km |-> IF n = 2 THEN a2 ELSE 850,
         dist_km |-> IF n = 1 THEN d1 ELSE IF n = 2 THEN d2
                     ELSE IF n = 3 THEN d3 ELSE 1000 * n]] :
        d1 \in {2000, 4000}, d2 \in {500, 2000}, d3 \in {1000},
        a2 \in {850, 35786}}

ExtraFates == {"exception", "garbled", "ok_a"}

LocatedAlert ==
    [BaseAlert EXCEPT !.sat_name = Absent] @@
    [reporting_sat |-> Absent, norad_id |-> NA, alert_time_utc |-> AlertTime,
     alert_lat_dd |-> 35, alert_lon_dd |-> 0 - 77]

InitExtras ==
    /\ refFile \in ExtraFiles
    /\ tleCacheCatnr = EmptyCatnrCache
    /\ tleCacheGroup = EmptyGroupCache
    /\ net = <<>>
    /\ sky \in ExtraSkies
    /\ alertRow = LocatedAlert
    /\ elevations \in BuildElevs
    /\ threads = NoThreads
    /\ call = Idle

\* the environment: what the first requests will meet; a request beyond the
\* plan gets no answer
NetworkPlan ==
    /\ call = Idle
    /\ net = <<>>
    /\ net' \in SeqsUpTo(ExtraFates, MaxPlan) \ {<<>>}
    /\ UNCHANGED <<refFile, tleCacheCatnr, tleCacheGroup, sky, alertRow, elevations, threads, call>>

VisibleCandidates ==
    \E exclude_norad \in {{}, {1}}, max_candidates \in {1, 3}, top_n \in {1, 2} :
        \E r \in {visible_candidates(alertRow.alert_time_utc, exclude_norad,
                                     max_candidates, top_n, sky,
                                     tleCacheCatnr, tleCacheGroup, net)} :
           /\ tleCacheCatnr' = r.io.catnr
           /\ tleCacheGroup' = r.io.group
           /\ net' = r.io.net
           /\ call' = [op |-> "_visible_candidates", exclude_norad |-> exclude_norad,
                       max_candidates |-> max_candidates, top_n |-> top_n,
                       out |-> r.out, tle_df |-> r.io.df, sent |-> r.io.sent]
           /\ UNCHANGED <<refFile, sky, alertRow, elevations, threads>>

UpcomingPasses ==
    \E exclude_norad \in {{}, {1}}, max_candidates \in {1, 3}, top_n \in {1, 2} :
        \E r \in {upcoming_passes(alertRow.alert_time_utc, exclude_norad,
                                  max_candidates, top_n, sky, elevations,
                                  tleCacheCatnr, tleCacheGroup, net)} :
           /\ tleCacheCatnr' = r.io.catnr
           /\ tleCacheGroup' = r.io.group
           /\ net' = r.io.net
           /\ call' = [op |-> "_upcoming_passes", exclude_norad |-> exclude_norad,
                       max_candidates |-> max_candidates, top_n |-> top_n,
                       out |-> r.out, tle_df |-> r.io.df, sent |-> r.io.sent]
           /\ UNCHANGED <<refFile, sky, alertRow, elevations, threads>>

\* sat_pipeline.py line 119: the orchestrator fetches the elements of the
\* satellite it reports, of whatever type, into the same caches
FetchReported ==
    \E n \in 1..3 :
        \E r \in {load_tle_snapshot(<<int_to_str(n)>>, <<>>, tleCacheCatnr,
                                     tleCacheGroup, net)} :
           /\ tleCacheCatnr' = r.catnr
           /\ tleCacheGroup' = r.group
           /\ net' = r.net
           /\ call' = [op |-> "load_tle_snapshot", keys |-> <<int_to_str(n)>>,
                       out |-> Return(r.df), sent |-> r.sent]
           /\ UNCHANGED <<refFile, sky, alertRow, elevations, threads>>

\* the reported frame that goes with a helper call: the row of the excluded
\* satellite when its elements were fetched and propagate, else empty
overlay_of(tles, exclude_norad) ==
    LET mine == SelectSeq(tles, LAMBDA t : t.norad_id \in exclude_norad)
    IN IF mine = <<>> THEN <<>>
       ELSE LET sub == compute_subpoint_at(sky, mine[1].tle_line1, mine[1].tle_line2)
            IN IF sub.kind = "raise" THEN <<>>
               ELSE dropna(<<primary_row(alertRow, EmptyRow, mine[1], sub.val[1],
                                         "celestrak:catnr", elevations)>>)

\* sat_pipeline.py lines 196-202 on the frame _visible_candidates returned
\* and the (empty) frame of _upcoming_passes
MergeExtras ==
    /\ call.op = "_visible_candidates"
    /\ call.out.kind = "ok"
    /\ call' = [op |-> "merge_extra", extra |-> call.out.val,
                out |-> concat_extra(overlay_of(call.tle_df, call.exclude_norad),
                                     <<call.out.val, <<>> >>)]
    /\ UNCHANGED <<refFile, tleCacheCatnr, tleCacheGroup, net, sky, alertRow, elevations, threads>>

NextExtras ==
    NetworkPlan \/ FetchReported \/ VisibleCandidates \/ UpcomingPasses \/ MergeExtras

SpecExtras == InitExtras /\ [][NextExtras]_vars

\* the same helpers for an alert older than the element sets: the alert is
\* six hours before the epoch of the sets the provider serves
EarlyAlert == [LocatedAlert EXCEPT !.alert_time_utc = 0 - AlertTime]

InitAge ==
    /\ refFile = GoodFile(CatThree)
    /\ tleCacheCatnr = EmptyCatnrCache
    /\ tleCacheGroup = EmptyGroupCache
    /\ net = <<>>
    /\ sky \in ExtraSkies
    /\ alertRow = EarlyAlert
    /\ elevations \in BuildElevs
    /\ threads = NoThreads
    /\ call = Idle

SpecAge == InitAge /\ [][NextExtras]_vars

-----------------------------------------------------------------------------
(* Properties of the pass predictor (SpecPass) *)

Min(S) == CHOOSE x \in S : \A y \in S : x <= y
Max(S) == CHOOSE x \in S : \A y \in S : x >= y

PosSamples == {k \in 0..(Len(elevations) - 1) : elevations[k + 1] > 0}
RunStart == Min(PosSamples)
RunEnd ==
    Max({k \in PosSamples :
            k >= RunStart /\ \A j \in RunStart..k : j \in PosSamples})
FirstRun == RunStart..RunEnd
PassDone == call.op = "find_next_pass_marker"
PassSample == call.out[1].time_utc \div step_s

\* C6: find_next_pass_marker returns none exactly when no sampled elevation
\* is > 0; otherwise the returned event lies at a sample of the first maximal
\* run of consecutive samples with elevation > 0 (starting at sample 0 when
\* the pass is already in progress), even when a later run is higher.
C6_FirstBlockOnly ==
    PassDone =>
        /\ (call.out = None) <=> (PosSamples = {})
        /\ call.out # None =>
              /\ call.out[1].time_utc = PassSample * step_s
              /\ PassSample \in FirstRun

\* a pass in progress at sample 0, and a later, higher run in the horizon
C6_Witness ==
    /\ PassDone /\ call.out # None
    /\ RunStart = 0
    /\ \E k \in PosSamples :
          /\ k > RunEnd
          /\ \A j \in FirstRun : elevations[k + 1] > elevations[j + 1]
    /\ PassSample \in FirstRun

\* C7: the reported max elevation is the maximum of the sampled elevations
\* over the first contiguous positive block (so >= the elevation at the
\* block's first and last sample), and the reported time is the time of a
\* sample at which that maximum is attained.
C7_PeakOfFirstBlock ==
    (PassDone /\ call.out # None) =>
        /\ call.out[1].elevation_max_deg =
              Max({elevations[j + 1] : j \in FirstRun})
        /\ call.out[1].elevation_max_deg >= elevations[RunStart + 1]
        /\ call.out[1].elevation_max_deg >= elevations[RunEnd + 1]
        /\ PassSample \in 0..(Len(elevations) - 1)
        /\ elevations[PassSample + 1] = call.out[1].elevation_max_deg

\* a block of three or more samples that peaks strictly inside
C7_Witness ==
    /\ PassDone /\ call.out # None
    /\ RunEnd >= RunStart + 2
    /\ call.out[1].elevation_max_deg > elevations[RunStart + 1]
    /\ call.out[1].elevation_max_deg > elevations[RunEnd + 1]
    /\ PassSample > RunStart /\ PassSample < RunEnd

-----------------------------------------------------------------------------
(* Properties of the resolver (SpecResolve) *)

ResolveDone == call.op = "resolve_reporting_sat" /\ call.out.kind = "ok"
Catalog == refFile.rows
NameCol ==
    IF alertRow.sat_name # Absent THEN alertRow.sat_name
    ELSE alertRow.satellite_name
HintVal == str_lower(str_strip(NameCol))
ExactRows ==
    IF NameCol = Absent THEN {}
    ELSE {i \in 1..Len(Catalog) : str_lower(Catalog[i].common_name) = HintVal}
SubstrRows ==
    IF NameCol = Absent THEN {}
    ELSE {i \in 1..Len(Catalog) :
            str_contains(str_lower(Catalog[i].common_name), HintVal)}
DesigRows(col) ==
    IF alertRow[col] = Absent THEN {}
    ELSE {i \in 1..Len(Catalog) :
            str_upper(Catalog[i].designator) = str_upper(str_strip(alertRow[col]))}
DesigCols == <<"sat_designator", "sat", "SAT">>
DesigHits == {c \in 1..Len(DesigCols) : DesigRows(DesigCols[c]) # {}}

\* C8: resolve_reporting_sat returns the record whose common name equals the
\* hint case-insensitively whenever one exists, even if earlier records
\* contain the hint as a substring; a substring match is used only when
\* there is no exact match, a designator match only when there is no name
\* match; among several matches the first in catalog order is returned.
C8_ExactThenSubstrThenDesig ==
    ResolveDone =>
        IF ExactRows # {} THEN call.out.val = Some(Catalog[Min(ExactRows)])
        ELSE IF SubstrRows # {} THEN call.out.val = Some(Catalog[Min(SubstrRows)])
        ELSE IF DesigHits # {}
             THEN call.out.val =
                    Some(Catalog[Min(DesigRows(DesigCols[Min(DesigHits)]))])
        ELSE call.out.val = None

\* an exact match later in the catalog than a record that only contains the hint
C8_Witness ==
    /\ ResolveDone
    /\ ExactRows # {}
    /\ \E j \in SubstrRows \ ExactRows : j < Min(ExactRows)
    /\ call.out.val = Some(Catalog[Min(ExactRows)])
    /\ Catalog[Min(ExactRows)] # Catalog[1]

-----------------------------------------------------------------------------
(* Properties of the element provider (SpecTle) *)

\* a step in which load_tle_snapshot ran (the network step only refills net)
LoadStep == call'.op = "load_tle_snapshot" /\ ~(net = <<>> /\ net' # <<>>)

Occurrences(q, x) == Cardinality({i \in DOMAIN q : q[i] = x})
CatnrRows(df, n) ==
    {i \in DOMAIN df : df[i].lookup_method = "catnr" /\ df[i].norad_id = n}
GroupRows(df) == {i \in DOMAIN df : df[i].lookup_method = "group"}
KeysOfGroup(keys, g) ==
    {i \in DOMAIN keys : ~is_int(keys[i]) /\ infer_group(keys[i]) = Some(g)}
OkFates == {"ok_a", "ok_b"}
FailFates == {"exception", "non200"}

\* C4: once load_tle_snapshot has fetched the elements of a catalog number
\* or of a group, every later lookup of that key, whatever was looked up in
\* between, returns the same element lines from the cache with
\* cache_hit = true and sends no request for that key.
C4_ServedFromCache ==
    [][LoadStep =>
        /\ \A n \in NoradSet : tleCacheCatnr[n] # None =>
            /\ tleCacheCatnr'[n] # None
            /\ tleCacheCatnr'[n][1].tle_line1 = tleCacheCatnr[n][1].tle_line1
            /\ tleCacheCatnr'[n][1].tle_line2 = tleCacheCatnr[n][1].tle_line2
            /\ \A i \in DOMAIN call'.sent : call'.sent[i] # CatnrReq(n)
            /\ Cardinality(CatnrRows(call'.out.val, n))
                 = Occurrences(call'.keys, int_to_str(n))
            /\ \A i \in CatnrRows(call'.out.val, n) :
                 /\ call'.out.val[i].cache_hit
                 /\ call'.out.val[i].tle_line1 = tleCacheCatnr[n][1].tle_line1
                 /\ call'.out.val[i].tle_line2 = tleCacheCatnr[n][1].tle_line2
        /\ \A g \in GroupNames : tleCacheGroup[g] # None =>
            /\ tleCacheGroup'[g] = tleCacheGroup[g]
            /\ \A i \in DOMAIN call'.sent : call'.sent[i] # GroupReq(g)
            /\ KeysOfGroup(call'.keys, g) # {} =>
                 [i \in 1..Cardinality(GroupRows(call'.out.val)) |->
                     call'.out.val[Len(call'.out.val)
                                   - Cardinality(GroupRows(call'.out.val)) + i]]
                   = mark_hit(tleCacheGroup[g][1])
    ]_vars

\* a call that served one catalog number from the cache, with the element
\* lines of its first fetch, while it fetched another key with newer lines
C4_Witness ==
    /\ call.op = "load_tle_snapshot"
    /\ \E i, j \in DOMAIN call.out.val :
          /\ call.out.val[i].cache_hit
          /\ ~call.out.val[j].cache_hit
          /\ call.out.val[i].epoch_utc # call.out.val[j].epoch_utc
          /\ \A k \in DOMAIN call.sent : call.sent[k] # CatnrReq(call.out.val[i].norad_id)
    /\ call.sent # <<>>

SingleLookup ==
    /\ LoadStep
    /\ Len(call'.keys) = 1
    /\ \/ /\ is_int(call'.keys[1])
          /\ tleCacheCatnr[to_int(call'.keys[1])] = None
       \/ /\ ~is_int(call'.keys[1])
          /\ \E g \in GroupNames :
               infer_group(call'.keys[1]) = Some(g) /\ tleCacheGroup[g] = None

\* the fates of the first three attempts a lookup would make
Attempt(i) == IF i <= Len(net) THEN net[i] ELSE "exception"
FirstOk == {i \in 1..3 : Attempt(i) \in OkFates /\ \A j \in 1..(i - 1) : Attempt(j) \in FailFates}

-----------------------------------------------------------------------------
(* Properties of the orchestrator (Spec) *)

BuildDone == call.op = "build_sat_overlay_df"
BuildOk == BuildDone /\ call.out.kind = "ok"
RowsWithRole(rows, role) == {i \in DOMAIN rows : rows[i].role = role}
HintResolved == refFile.exists /\ resolve_reporting_sat(alertRow).val # None
Override == alertRow.norad_id # NA

\* C1: a table that build_sat_overlay_df returns has at most one row of
\* role "reported", also when the catalog holds several rows with the same
\* norad_id and after the satellite type has been merged in.
C1_AtMostOneReported ==
    BuildOk => Cardinality(RowsWithRole(call.out.val, "reported")) <= 1

\* C2: when the hint resolves to a catalog satellite and the element fetch
\* gives no elements, the build returns normally and the table has no
\* reported row.
C2_EmptyFetchDegrades ==
    (BuildDone /\ HintResolved /\ ~Override /\ call.tle_called /\ call.tle_df = <<>>)
        => (BuildOk /\ RowsWithRole(call.out.val, "reported") = {})

\* C3: when the fetched element lines are malformed, so that propagation
\* fails, the build still returns a table, without the reported row: no
\* exception leaves the orchestrator.
C3_PropagationFailureCaught ==
    (BuildDone /\ call.tle_df # <<>>
        /\ ~well_formed(call.tle_df[1].tle_line1, call.tle_df[1].tle_line2))
        => (BuildOk /\ RowsWithRole(call.out.val, "reported") = {})

\* elements of satellite n can be had: cached and well formed, or the
\* pending request will be answered with well-formed lines
ElementsAvailable(n) ==
    IF tleCacheCatnr[n] # None
    THEN well_formed(tleCacheCatnr[n][1].tle_line1, tleCacheCatnr[n][1].tle_line2)
    ELSE net # <<>> /\ Head(net) = "ok_a"

\* C9: with a norad_id on the alert, and elements and a position to be had
\* for that number, every build with elements returns a table whose
\* reported row is for that number, whatever the name hint resolves to
\* (nothing, the same satellite, another one): the override never makes the
\* call fail.
C9_OverrideAlwaysBuilds ==
    [][(Build /\ Override /\ refFile.exists /\ call'.use_tle
          /\ ElementsAvailable(alertRow.norad_id)
          /\ sky[alertRow.norad_id] # NanPoint)
        => /\ call'.out.kind = "ok"
           /\ \E i \in RowsWithRole(call'.out.val, "reported") :
                  call'.out.val[i].norad_id = alertRow.norad_id]_vars

FallbackTopN == 3

\* catalog satellites with a known norad_id and a usable sub-point
FallbackCandidates ==
    {n \in NoradSet : /\ \E i \in DOMAIN refFile.rows : refFile.rows[i].norad_id = n
                      /\ sky[n] # NanPoint}

\* C10: when nothing on the alert resolves to a satellite, fallback is
\* enabled and the alert has a location, the build returns a table whose
\* rows of role "fallback_suggested" are catalog satellites with a known
\* norad_id and a usable sub-point, nearest first, at most the top N, and a
\* candidate whose elements are cached is left out only for N nearer ones.
C10_FallbackSuggested ==
    (BuildDone /\ refFile.exists /\ ~Override /\ ~HintResolved
        /\ call.fallback_to_nearest /\ call.use_tle /\ has_location(alertRow))
        => /\ BuildOk
           /\ LET rows == call.out.val
                  fb == SelectSeq(rows, LAMBDA r : r.role = "fallback_suggested")
                  listed == {fb[i].norad_id : i \in DOMAIN fb}
              IN /\ Len(fb) <= FallbackTopN
                 /\ listed \subseteq FallbackCandidates
                 /\ \A i, j \in DOMAIN fb :
                        i < j => sky[fb[i].norad_id].dist_km <= sky[fb[j].norad_id].dist_km
                 /\ \A n \in FallbackCandidates :
                        (tleCacheCatnr[n] # None /\ ElementsAvailable(n))
                            => \/ n \in listed
                               \/ /\ Len(fb) = FallbackTopN
                                  /\ \A m \in listed :
                                         sky[m].dist_km <= sky[n].dist_km

-----------------------------------------------------------------------------
(* Properties of the candidate helpers (SpecExtras) *)

VisibleDone == call.op = "_visible_candidates" /\ call.out.kind = "ok"
UpcomingDone == call.op = "_upcoming_passes" /\ call.out.kind = "ok"
Listed(rows) == {rows[i].norad_id : i \in DOMAIN rows}
Ascending(rows, col) == \A i, j \in DOMAIN rows : i < j => rows[i][col] <= rows[j][col]
CatalogNorads == {refFile.rows[i].norad_id : i \in DOMAIN refFile.rows} \ {NA}
LeoNorads ==
    {refFile.rows[i].norad_id : i \in {j \in DOMAIN refFile.rows : is_leo(refFile.rows[j].type)}}
        \ {NA}
Footprint(n) == horizon_radius_km(sky[n].alt_km)
InFootprint(n) == sky[n] # NanPoint /\ Footprint(n) # NA /\ sky[n].dist_km <= Footprint(n)
\* the provider holds well-formed elements of satellite n
ElementsHeld(n) ==
    /\ tleCacheCatnr[n] # None
    /\ well_formed(tleCacheCatnr[n][1].tle_line1, tleCacheCatnr[n][1].tle_line2)
\* satellite n is left out of rows only for top_n nearer ones
NotOvertaken(n, rows, top_n) ==
    \/ n \in Listed(rows)
    \/ /\ Len(rows) = top_n
       /\ \A m \in Listed(rows) : sky[m].dist_km <= sky[n].dist_km
\* satellite n is not left out of rows while a farther one is listed
NoFartherListed(n, rows) ==
    \/ n \in Listed(rows)
    \/ \A m \in Listed(rows) : sky[m].dist_km <= sky[n].dist_km
NearbyRowsSound(rows, excluded) ==
    \A i \in DOMAIN rows :
        /\ rows[i].role = "nearby_not_detected"
        /\ rows[i].norad_id \in CatalogNorads \ excluded
        /\ rows[i].distance_km = sky[rows[i].norad_id].dist_km
        /\ InFootprint(rows[i].norad_id)

\* C11: every nearby_not_detected row is a catalog satellite other than
\* the reported one whose sub-point lies within its footprint radius of the
\* alert point; the rows are in ascending distance order; no catalog
\* satellite that qualifies (its elements are held by the provider) is
\* left out while a farther one is listed.
C11_NearbyWithinFootprint ==
    VisibleDone =>
        /\ NearbyRowsSound(call.out.val, call.exclude_norad)
        /\ Ascending(call.out.val, "distance_km")
        /\ \A n \in CatalogNorads \ call.exclude_norad :
               (ElementsHeld(n) /\ InFootprint(n))
                   => NoFartherListed(n, call.out.val)

\* the satellites the helper asks elements for: the first max_candidates
\* LEO/LEOSAR catalog rows with a catalog number
AskedNorads ==
    LET keys == candidate_keys(refFile.rows, call.max_candidates)
    IN {to_int(keys[i]) : i \in DOMAIN keys}

\* C11 (amended): every nearby_not_detected row is one of the first
\* max_candidates LEO/LEOSAR catalog satellites, other than the reported
\* one, whose sub-point lies within its footprint radius of the alert
\* point; there are at most top_n rows, in ascending distance order; none
\* of those satellites whose elements the provider returned is left out
\* while a farther one is listed.
C11_NearbyLeoWithinFootprint ==
    VisibleDone =>
        /\ NearbyRowsSound(call.out.val, call.exclude_norad)
        /\ Listed(call.out.val) \subseteq AskedNorads
        /\ Len(call.out.val) <= call.top_n
        /\ Ascending(call.out.val, "distance_km")
        /\ \A n \in AskedNorads \ call.exclude_norad :
               (ElementsHeld(n) /\ InFootprint(n))
                   => NotOvertaken(n, call.out.val, call.top_n)

\* a nearer satellite is listed and a farther qualifying one is cut by top_n
C11_Witness ==
    /\ VisibleDone
    /\ call.out.val # <<>>
    /\ \E n \in AskedNorads \ call.exclude_norad :
           /\ ElementsHeld(n) /\ InFootprint(n)
           /\ n \notin Listed(call.out.val)
           /\ \E m \in Listed(call.out.val) : sky[m].dist_km < sky[n].dist_km

\* the pass of satellite n that the pass search finds from the alert time
PassOf(n) == find_next_pass_marker(ElevOf(elevations, n), alertRow.alert_time_utc)
\* asked-for satellites, not excluded, with elements held and a pass found
Eligible ==
    {n \in AskedNorads \ call.exclude_norad : ElementsHeld(n) /\ PassOf(n) # None}

\* C12: the upcoming rows are exactly the top-N, by ascending pass time, of
\* the catalog satellites not already selected for which the pass search
\* finds a pass; each row carries its pass event, time and max elevation.
C12_UpcomingTopN ==
    UpcomingDone =>
        LET rows == call.out.val
        IN /\ Listed(rows) \subseteq Eligible
           /\ Len(rows) <= call.top_n
           /\ \A i \in DOMAIN rows :
                  /\ rows[i].role = "upcoming"
                  /\ rows[i].next_pass_marker = PassOf(rows[i].norad_id)
                  /\ rows[i].at_time_utc = PassOf(rows[i].norad_id)[1].time_utc
           /\ Ascending(rows, "at_time_utc")
           /\ \A n \in Eligible :
                  \/ n \in Listed(rows)
                  \/ /\ Len(rows) = call.top_n
                     /\ \A m \in Listed(rows) :
                            PassOf(m)[1].time_utc <= PassOf(n)[1].time_utc

-----------------------------------------------------------------------------
(* Properties of the returned table: roles, caps and element age (Spec) *)

Roles == {"reported", "nearby_not_detected", "upcoming", "fallback_suggested"}

-----------------------------------------------------------------------------
(* Properties of the reference loader *)

LoadDone == call.op = "load_sat_reference"

\* C16: load_sat_reference never raises: a missing baseline file yields a
\* non-empty built-in default set, and a file lacking a required column is
\* loaded with the column filled in instead of failing.
C16_LoadNeverRaises ==
    LoadDone =>
        /\ call.out.kind = "ok"
        /\ ~refFile.exists => call.out.val # <<>>
        /\ refFile.exists => call.out.val = refFile.rows


-----------------------------------------------------------------------------
(* Properties of the track sampler (SpecTrack) *)

TrackDone == call.op = "compute_short_track" /\ call.out.kind = "ok"
TrackLons == [i \in DOMAIN call.out.val.coords |-> call.out.val.coords[i][1]]
Pairs(xs) == {i \in DOMAIN xs : i + 1 \in DOMAIN xs}
Dist(a, b) == IF a >= b THEN a - b ELSE b - a

\* successive raw longitudes step over the antimeridian: each within
\* [-180, 180], on opposite sides, more than 180 apart the long way round
Crossing(xs) ==
    \E i \in Pairs(xs) :
        /\ Dist(xs[i], 0) <= 180 /\ Dist(xs[i + 1], 0) <= 180
        /\ Dist(xs[i], xs[i + 1]) > 180

\* C17: for a track whose successive raw longitudes cross the antimeridian,
\* no two consecutive returned points differ in longitude by more than 180.
C17_NoJumpInOutput ==
    (TrackDone /\ Crossing(call.lons)) =>
        \A i \in Pairs(TrackLons) : Dist(TrackLons[i], TrackLons[i + 1]) <= 180

\* C17 (amended): for such a track the series as unwrapped inside
\* compute_short_track has no consecutive pair more than 180 apart, and every
\* returned longitude is the unwrapped value of its sample wrapped into
\* [-180, 180), which equals the wrapped raw longitude of the sample.
C17_UnwrappedThenWrappedPerPoint ==
    (TrackDone /\ Crossing(call.lons)) =>
        LET up == call.out.val.lons_deg
        IN /\ \A i \in Pairs(up) : Dist(up[i], up[i + 1]) <= 180
           /\ DOMAIN up = DOMAIN TrackLons
           /\ \A i \in DOMAIN TrackLons :
                 /\ TrackLons[i] \in (0 - 180)..179
                 /\ (TrackLons[i] - up[i]) % 360 = 0
                 /\ (TrackLons[i] - call.lons[i]) % 360 = 0

\* 179 then -179: unwrapped to 179, 181 and returned as 179, -179
C17_Witness ==
    /\ TrackDone /\ Crossing(call.lons)
    /\ \E i \in Pairs(call.lons) :
          /\ call.lons[i] = 179 /\ call.lons[i + 1] = 0 - 179
          /\ call.out.val.lons_deg[i + 1] - call.out.val.lons_deg[i] = 2
          /\ TrackLons[i + 1] - TrackLons[i] = 0 - 358

\* C18: every longitude returned by compute_subpoint_at, by
\* compute_short_track (each point) and by find_next_pass_marker lies in
\* [-180, 180], whatever raw longitude the propagation gave.
C18_LongitudesNormalized ==
    /\ (call.op = "compute_subpoint_at" /\ call.out.kind = "ok") =>
           call.out.val[1].lon_dd \in (0 - 180)..180
    /\ TrackDone =>
           \A i \in DOMAIN TrackLons : TrackLons[i] \in (0 - 180)..180
    /\ (call.op = "find_next_pass_marker" /\ call.out.kind = "ok"
          /\ call.out.val # None) =>
           call.out.val[1].lon_dd \in (0 - 180)..180

\* a raw longitude beyond the range went through each of the three
C18_Witness ==
    \/ /\ call.op = "compute_subpoint_at" /\ call.out.kind = "ok"
       /\ call.lon = 360 /\ call.out.val[1].lon_dd = 0
    \/ /\ TrackDone
       /\ \E i \in DOMAIN call.lons :
             call.lons[i] = 0 - 181 /\ TrackLons[i] = 179
    \/ /\ call.op = "find_next_pass_marker" /\ call.out.kind = "ok"
       /\ call.out.val # None
       /\ call.lon = 0 - 540 /\ call.out.val[1].lon_dd = 0 - 180

\* C19: compute_short_track returns floor(forward_min * 60 / step_s) + 1
\* points, the first sampled at the center time, successive samples step_s
\* apart, and the reported end time is the time of the last returned point.
C19_PointCountAndTimes ==
    TrackDone =>
        LET t == call.out.val.times
            n == Len(call.out.val.coords)
        IN /\ n = ((call.forward_min * 60) \div call.step_s) + 1
           /\ Len(t) = n
           /\ t[1] = call.center_utc
           /\ call.out.val.start_utc = call.center_utc
           /\ \A i \in Pairs(t) : t[i + 1] - t[i] = call.step_s
           /\ call.out.val.end_utc = t[n]

\* a step that does not divide the span (60 s sampled every 40 s): the last
\* sample falls short of center + forward_min
C19_Witness ==
    /\ TrackDone
    /\ call.forward_min = 1 /\ call.step_s = 40
    /\ Len(call.out.val.coords) = 2
    /\ call.out.val.end_utc = call.center_utc + 40


-----------------------------------------------------------------------------
(* Properties of concurrent lookups (SpecConcurrent) *)

BothDone == \A t \in Threads : threads[t].pc = "done"
SameKey == threads[1].key = threads[2].key
SentBy(t) == threads[t].sent
AllAnswered ==
    \A t \in Threads : SentBy(t) # <<>> => usable(threads[t].key, threads[t].resp)

\* C20: when two lookups of the same uncached key run against the shared
\* caches and the provider answers, at most one request is issued for the
\* key, and afterwards the cache holds the entry for the key.
C20_SingleFetchPerKey ==
    (BothDone /\ SameKey /\ AllAnswered) =>
        /\ Len(SentBy(1)) + Len(SentBy(2)) <= 1
        /\ key_cached(threads[1].key, tleCacheCatnr, tleCacheGroup)


-----------------------------------------------------------------------------
(* Properties of the element cache across orchestration calls *)

\* C21: the cache is scoped to one build_sat_overlay_df call: every call that
\* looks the reported satellite's elements up goes to the network and its
\* rows report cache_hit = false, whatever an earlier call has cached.
C21_CachePerCall ==
    (BuildDone /\ call.tle_called) =>
        /\ call.sent # <<>>
        /\ \A i \in DOMAIN call.tle_df : ~call.tle_df[i].cache_hit

\* the catalog record the hint resolves to has a type outside the filter
ExcludedType(types) ==
    /\ HintResolved
    /\ type_norm(resolve_reporting_sat(alertRow).val[1].type) \notin want_types(types)

\* C22: the hint is resolved only against catalog records whose normalized
\* type is in types: whatever types argument the call was given, a hint
\* naming a satellite of a type it excludes yields no reported row.
C22_ResolveWithinTypes ==
    (BuildOk /\ ~Override) =>
        \A types \in TypesSet :
            ExcludedType(types) => RowsWithRole(call.out.val, "reported") = {}

\* the group of the resolved record, when it has a designator of a
\* constellation and no catalog number
HintGroup ==
    LET hit == resolve_reporting_sat(alertRow).val[1]
    IN IF hit.norad_id # NA THEN None
       ELSE designator_group([designator |-> Some(hit.designator)])

\* C23: when the resolved identity has no catalog number and a designator
\* starting with E, R, B or C, the key that build_sat_overlay_df hands to
\* load_tle_snapshot makes it look the matching group up: the request for
\* that group is sent, or the group is served from the cache.
C23_GroupKeyReachesGroup ==
    (BuildDone /\ call.use_tle /\ ~Override /\ HintResolved /\ HintGroup # None) =>
        /\ call.tle_called
        /\ \/ call.sent = <<GroupReq(HintGroup[1])>>
           \/ call.sent = <<>> /\ tleCacheGroup[HintGroup[1]] # None

\* C24: no catalog number appears in more than one row of the table that
\* build_sat_overlay_df returns.
C24_OneRowPerSatellite ==
    BuildOk =>
        \A i, j \in DOMAIN call.out.val :
            (i # j /\ call.out.val[i].norad_id # NA) =>
                call.out.val[i].norad_id # call.out.val[j].norad_id

MergeDone == call.op = "merge_extra" /\ call.out.kind = "ok"

\* C25: the rows selected by distance ranking keep the distance they were
\* ranked by, in the distance_km field, through the merge of the extra rows
\* into the overlay table.
C25_DistanceKept ==
    MergeDone =>
        \A j \in DOMAIN call.extra :
            \E i \in DOMAIN call.out.val :
                /\ call.out.val[i].norad_id = call.extra[j].norad_id
                /\ call.out.val[i].distance_km = call.extra[j].distance_km

-----------------------------------------------------------------------------
(* Properties of the retrying fetch (SpecFetch) *)

FetchRunning == call.op = "safe_fetch"
FetchDone == FetchRunning /\ call.pc = "done"
Good(fate) == fate = "ok_a"
Primaries == {k \in DOMAIN call.sent : call.sent[k] = PrimaryUrl}

FetchOrder ==
    FetchRunning =>
        LET n == Len(call.sent)
            np == Cardinality(Primaries)
        IN \* at most 3 primary requests, all before any alternate
           /\ np <= 3
           /\ Primaries = 1..np
           \* alternates only after 3 primary attempts, each once, in order
           /\ n > np => np = 3
           /\ n - np <= Len(call.config)
           /\ \A k \in 1..(n - np) : call.sent[np + k] = call.config[k]
           \* a longer wait before each next primary attempt
           /\ \A k \in 1..Len(call.slept) :
                 (k + 1 \in Primaries /\ k > 1) => call.slept[k] > call.slept[k - 1]
           \* every request but the last met a failure or an empty answer
           /\ \A k \in 1..(n - 1) : ~Good(call.met[k])
           \* no request exception escapes
           /\ call.out.kind = "ok"
           /\ call.pc = "done" =>
                 /\ call.out.val # <<>> <=> (n > 0 /\ Good(call.met[n]))
                 /\ call.out.val = <<>> =>
                       /\ n = 3 + Len(call.config)
                       /\ \A k \in 1..n : ~Good(call.met[k])

\* C26: safe_fetch always terminates and follows the retry order: at most 3
\* primary requests with growing waits, alternates only after the 3 primary
\* attempts failed, each alternate once in configured order, the first
\* non-empty result returned with no further request, an empty list when
\* every request fails, and no request exception let out.
C26_SafeFetchOrder == [](FetchOrder) /\ (FetchRunning ~> FetchDone)

\* three failed primary attempts, then the second alternate answered
C26_Witness ==
    /\ FetchDone
    /\ call.sent = <<PrimaryUrl, PrimaryUrl, PrimaryUrl, "alt1", "alt2">>
    /\ call.met[1] = "exception" /\ call.met[2] = "non200" /\ call.met[3] = "blank"
    /\ call.out.val # <<>>
    /\ call.slept = <<1, 2, 3, 1>>

-----------------------------------------------------------------------------
(* Further properties of the element lookup (SpecTle) *)

TleDone == call.op = "load_tle_snapshot"
Fetched(n) == \E k \in DOMAIN call.sent : call.sent[k] = CatnrReq(n)

\* C27: in the frame load_tle_snapshot returns, the row of the request that
\* populated the cache for a catalog number reports cache_hit = false, also
\* when the same number occurs again later in the request list and is then
\* served from the cache.
C27_FetchedRowKeepsFlag ==
    TleDone =>
        \A n \in NoradSet :
            (Fetched(n) /\ CatnrRows(call.out.val, n) # {}) =>
                ~call.out.val[Min(CatnrRows(call.out.val, n))].cache_hit

\* C28: only a lookup that produced at least one element set changes the
\* cache: after a failed request, or a response without a complete element
\* set, the key has no cache entry, so the next lookup of it goes to the
\* network.  Every group entry of the cache therefore holds element sets.
C28_NoEmptyCacheEntry ==
    \A g \in DOMAIN tleCacheGroup :
        tleCacheGroup[g] # None => tleCacheGroup[g][1] # <<>>

-----------------------------------------------------------------------------
(* Age of the element sets in the helper rows (SpecAge) *)

\* C29: tle_age_hours is never negative in a returned row, with one
\* convention for all roles: for an alert that precedes the epoch, the
\* nearby_not_detected row reports the same non-negative age as the reported
\* row with that offset (the absolute difference, in hours).
C29_AgeNeverNegative ==
    (call.op = "_visible_candidates" /\ call.out.kind = "ok") =>
        \A i \in DOMAIN call.out.val :
            LET r == call.out.val[i]
            IN r.tle_age_hours # NA =>
                  /\ r.tle_age_hours >= 0
                  /\ r.tle_age_hours
                       = abs_diff(r.at_time_utc, r.tle_epoch_utc) \div SecondsPerHour

-----------------------------------------------------------------------------
(* Blank name hints (SpecResolve) *)

BlankHint == alertRow.sat_name # Absent /\ str_strip(alertRow.sat_name) = <<>>

\* C30: resolve_reporting_sat returns none when the name hint is empty or
\* holds only whitespace and no designator field matches a catalog row,
\* whatever the catalog holds.
C30_BlankHintResolvesNone ==
    (/\ ResolveDone
     /\ BlankHint
     /\ by_designator(load_sat_reference.val, alertRow,
                      <<"sat_designator", "sat", "SAT">>) = None)
        => call.out.val = None

====
